---- MODULE Spec2Model ----
(***************************************************************************)
(* Model of the portfolio optimisation engine of src/src/lib/markowitz.ts, *)
(* of the frontier sweep exported by src/src/components/PriceChart.tsx, of *)
(* the state of src/src/pages/OptimizationPage.tsx and its calls of       *)
(* computeOptimal, of the selection of the frontier symbols, the          *)
(* covariances and the user weights of src/src/pages/PortfolioPage.tsx,   *)
(* of src/src/lib/metrics.ts and of the loop of                           *)
(* src/scripts/populate-sp500.mjs.                                        *)
(*                                                                         *)
(* Numbers.  A JavaScript number is modelled as an exact rational with a   *)
(* decimal exponent, <<n, d, e>> standing for (n/d) * 10^e, kept in a      *)
(* canonical form (d > 0, gcd(n, d) = 1, neither n nor d divisible by 5,   *)
(* zero is <<0, 1, 0>>), so that equal values are equal tuples.  The       *)
(* exponent keeps magnitudes such as 1e-12 and 1e13 inside TLC's integers. *)
(* Floating-point rounding is not modelled: every arithmetic operation is  *)
(* exact.  Math.sqrt is modelled exactly too, by surds c * sqrt(r).        *)
(***************************************************************************)
EXTENDS Integers, Sequences, FiniteSets, TLC

VARIABLES
  pc,    \* "idle", "elim" (inside the column loop of an elimination), "done"
  fn,    \* the function called
  args,  \* its arguments
  ret,   \* its result, once pc = "done"
  aug,   \* solve / invertMatrix: the augmented matrix being reduced
  col,   \* solve / invertMatrix: the column the loop is at (from 1)
  prev,  \* the inversion whose result the current call was given, if any
  page,  \* OptimizationPage: its React state; last is the run of computeOptimal
         \* made by the step that led to the state, if it made one
  calls,      \* OptimizationPage: the calls of computeOptimal, in the order started
  computing,  \* OptimizationPage: the computing flag
  ingest      \* populate-sp500.mjs: the state of main

vars == <<pc, fn, args, ret, aug, col, prev, page, calls, computing, ingest>>

----------------------------------------------------------------------------
(* Exact arithmetic on <<n, d, e>> = (n/d) * 10^e.                         *)

Abs(i) == IF i < 0 THEN -i ELSE i

RECURSIVE Gcd(_, _)
Gcd(a, b) == IF b = 0 THEN a ELSE Gcd(b, a % b)

RECURSIVE Pow10(_)
Pow10(k) == IF k = 0 THEN 1 ELSE 10 * Pow10(k - 1)

Zero == <<0, 1, 0>>

RECURSIVE Strip5(_, _, _)
Strip5(n, d, e) ==
  IF n % 5 = 0
    THEN IF n % 2 = 0 THEN Strip5(n \div 10, d, e + 1)
                      ELSE Strip5(n \div 5, 2 * d, e + 1)
    ELSE IF d % 5 = 0
      THEN IF d % 2 = 0 THEN Strip5(n, d \div 10, e - 1)
                        ELSE Strip5(2 * n, d \div 5, e - 1)
      ELSE <<n, d, e>>

Canon(n, d, e) ==
  IF n = 0 THEN Zero
  ELSE LET g == Gcd(Abs(n), Abs(d))
           s == IF d < 0 THEN -1 ELSE 1
       IN  Strip5((s * n) \div g, (s * d) \div g, e)

Num(i) == Canon(i, 1, 0)
Rat(n, d) == Canon(n, d, 0)
Dec(n, e) == Canon(n, 1, e)
One == Num(1)

Neg(x) == <<-x[1], x[2], x[3]>>

Add(x, y) ==
  IF x[1] = 0 THEN y
  ELSE IF y[1] = 0 THEN x
  ELSE LET e == IF x[3] < y[3] THEN x[3] ELSE y[3]
           g == Gcd(x[2], y[2])
       IN  Canon(x[1] * Pow10(x[3] - e) * (y[2] \div g)
                   + y[1] * Pow10(y[3] - e) * (x[2] \div g),
                 (x[2] \div g) * y[2], e)

Sub(x, y) == Add(x, Neg(y))

Mul(x, y) ==
  IF x[1] = 0 \/ y[1] = 0 THEN Zero
  ELSE LET g1 == Gcd(Abs(x[1]), y[2])
           g2 == Gcd(Abs(y[1]), x[2])
       IN  Canon((x[1] \div g1) * (y[1] \div g2),
                 (x[2] \div g2) * (y[2] \div g1), x[3] + y[3])

\* x / y for y # 0 (every division of the engine is guarded).
Div(x, y) == Mul(x, Canon(y[2], y[1], -y[3]))

Sign(x) == IF x[1] > 0 THEN 1 ELSE IF x[1] < 0 THEN -1 ELSE 0

AbsN(x) == <<Abs(x[1]), x[2], x[3]>>

Less(x, y) == Sign(Sub(x, y)) < 0

Leq(x, y) == Sign(Sub(x, y)) <= 0

MaxN(x, y) == IF Less(x, y) THEN y ELSE x

\* |x| < 10^(-k), decided without forming 10^k.
BelowTol(x, k) ==
  LET m == x[3] + k
  IN  IF x[1] = 0 THEN TRUE
      ELSE IF m >= 0
        THEN IF m > 9 THEN FALSE ELSE Abs(x[1]) <= (x[2] - 1) \div Pow10(m)
        ELSE IF -m > 9 THEN TRUE ELSE (Abs(x[1]) \div Pow10(-m)) < x[2]

----------------------------------------------------------------------------
(* Vectors and matrices are sequences (of sequences) of numbers.           *)

\* the sequence s itself, as an explicit tuple (TLC then computes each
\* element once instead of at every use)
Eager(s) == SubSeq(s, 1, Len(s))

RECURSIVE SumSeq(_)
SumSeq(s) == IF s = <<>> THEN Zero ELSE Add(SumSeq(SubSeq(s, 1, Len(s) - 1)), s[Len(s)])

Null == [null |-> TRUE]
Some(v) == [null |-> FALSE, val |-> v]

\* tolerances of the two elimination routines, as exponents: 1e-10, 1e-12
SOLVE_TOL_EXP == 10
INVERT_TOL_EXP == 12
SUM_TOL_EXP == 12

\* lines 147-150 / 73-76: first row, from col on, of largest |aug[row][col]|
RECURSIVE ScanPivot(_, _, _, _)
ScanPivot(a, c, row, pivot) ==
  IF row > Len(a) THEN pivot
  ELSE ScanPivot(a, c, row + 1,
                 IF Less(AbsN(a[pivot][c]), AbsN(a[row][c])) THEN row ELSE pivot)

SwapRows(a, i, j) ==
  Eager([r \in 1..Len(a) |-> IF r = i THEN a[j] ELSE IF r = j THEN a[i] ELSE a[r]])

\* Eliminate, the factor read from aug[row][col] at every j instead of once:
\* it is 0 from column c on, so the columns after c are left unchanged
EliminateFactorReread(a, c) ==
  LET div == a[c][c]
      prow == Eager([j \in 1..Len(a[c]) |-> Div(a[c][j], div)])
  IN  Eager([r \in 1..Len(a) |->
         IF r = c THEN prow
         ELSE Eager([j \in 1..Len(a[r]) |->
                IF j < c THEN Sub(a[r][j], Mul(a[r][c], prow[j]))
                ELSE IF j = c THEN Zero
                ELSE a[r][j]])])

\* Eliminate, only the rows below the pivot row reduced
EliminateBelowOnly(a, c) ==
  LET div == a[c][c]
      prow == Eager([j \in 1..Len(a[c]) |-> Div(a[c][j], div)])
  IN  Eager([r \in 1..Len(a) |->
         IF r = c THEN prow
         ELSE IF r < c THEN a[r]
         ELSE LET f == a[r][c]
              IN  Eager([j \in 1..Len(a[r]) |-> Sub(a[r][j], Mul(f, prow[j]))])])

\* normalise row c by its pivot and eliminate column c from every other row
Eliminate(a, c) ==
  LET div == a[c][c]
      prow == Eager([j \in 1..Len(a[c]) |-> Div(a[c][j], div)])
  IN  Eager([r \in 1..Len(a) |->
         IF r = c THEN prow
         ELSE LET f == a[r][c]
              IN  Eager([j \in 1..Len(a[r]) |-> Sub(a[r][j], Mul(f, prow[j]))])])

\* the row of the largest pivot candidate swapped into place
PivotSwap(a, c) == SwapRows(a, c, ScanPivot(a, c, c + 1, c))

\* |x| <= 10^(-k)
AtOrBelowTol(x, k) == BelowTol(x, k) \/ AbsN(x) = Dec(1, -k)

\* ElimStep, a pivot equal to the tolerance refused as well
ElimStepRefusesTolerance(a, c, tolExp) ==
  LET sw == SwapRows(a, c, ScanPivot(a, c, c + 1, c))
  IN  IF AtOrBelowTol(sw[c][c], tolExp) THEN Null ELSE Some(Eliminate(sw, c))

\* one pass of the column loop: Null when the pivot is below the tolerance
ElimStep(a, c, tolExp) ==
  LET sw == PivotSwap(a, c)
  IN  IF BelowTol(sw[c][c], tolExp) THEN Null ELSE Some(Eliminate(sw, c))

RECURSIVE ElimLoop(_, _, _)
ElimLoop(a, c, tolExp) ==
  IF c > Len(a) THEN Some(a)
  ELSE LET r == ElimStep(a, c, tolExp)
       IN  IF r.null THEN Null ELSE ElimLoop(r.val, c + 1, tolExp)

SolveAug(A, b) == Eager([i \in 1..Len(A) |-> Append(A[i], b[i])])

\* aug.map((row) => row[n])
SolveResult(a) == Eager([i \in 1..Len(a) |-> a[i][Len(a) + 1]])

solve(A, b) ==
  LET r == ElimLoop(SolveAug(A, b), 1, SOLVE_TOL_EXP)
  IN  IF r.null THEN Null ELSE Some(SolveResult(r.val))

\* InvertAug, the appended block filled with 1 on and above the diagonal
\* (i <= j ? 1 : 0)
InvertAugUpperOnes(M) ==
  Eager([i \in 1..Len(M) |-> M[i] \o [j \in 1..Len(M) |-> IF i <= j THEN One ELSE Zero]])

\* each row of M followed by the matching row of the identity
InvertAug(M) ==
  Eager([i \in 1..Len(M) |-> M[i] \o [j \in 1..Len(M) |-> IF i = j THEN One ELSE Zero]])

\* InvertResult, the left half of aug returned (row.slice(0, n))
InvertResultLeftHalf(a) == Eager([i \in 1..Len(a) |-> SubSeq(a[i], 1, Len(a))])

\* aug.map((row) => row.slice(n))
InvertResult(a) == Eager([i \in 1..Len(a) |-> SubSeq(a[i], Len(a) + 1, 2 * Len(a))])

invertMatrix(M) ==
  LET r == ElimLoop(InvertAug(M), 1, INVERT_TOL_EXP)
  IN  IF r.null THEN Null ELSE Some(InvertResult(r.val))

matVec(M, v) ==
  Eager([i \in 1..Len(M) |-> SumSeq([j \in 1..Len(M[i]) |-> Mul(M[i][j], v[j])])])

----------------------------------------------------------------------------
(* Math.sqrt, exactly: the surd [c, r] stands for c * sqrt(r), r >= 0.     *)

Sqrt(x) == [c |-> IF x = Zero THEN Zero ELSE One, r |-> x]

SurdZero == Sqrt(Zero)

SurdSign(s) == IF s.r = Zero THEN 0 ELSE Sign(s.c)

SurdSq(s) == Mul(Mul(s.c, s.c), s.r)

\* a / s for a surd s # 0
DivBySurd(a, s) ==
  IF a = Zero THEN SurdZero ELSE [c |-> Div(a, Mul(s.c, s.r)), r |-> s.r]

SurdLess(s, t) ==
  LET ss == SurdSign(s)
      st == SurdSign(t)
  IN  IF ss # st THEN ss < st
      ELSE IF ss > 0 THEN Less(SurdSq(s), SurdSq(t))
      ELSE IF ss < 0 THEN Less(SurdSq(t), SurdSq(s))
      ELSE FALSE

SurdLeq(s, t) == ~SurdLess(t, s)

SurdEq(s, t) == ~SurdLess(s, t) /\ ~SurdLess(t, s)

----------------------------------------------------------------------------
(* src/src/lib/markowitz.ts                                                *)

RISK_FREE == Dec(4, -2)

Mean(r) == Div(SumSeq(r), Num(Len(r)))

\* r.slice(-k)
LastK(r, k) == SubSeq(r, Len(r) - k + 1, Len(r))

RECURSIVE MinOver(_)
MinOver(s) ==
  IF Len(s) = 1 THEN s[1]
  ELSE LET m == MinOver(SubSeq(s, 1, Len(s) - 1))
       IN  IF Less(s[Len(s)], m) THEN s[Len(s)] ELSE m

RECURSIVE MaxOver(_)
MaxOver(s) ==
  IF Len(s) = 1 THEN s[1]
  ELSE LET m == MaxOver(SubSeq(s, 1, Len(s) - 1))
       IN  IF Less(m, s[Len(s)]) THEN s[Len(s)] ELSE m

MinLen(assetReturns) ==
  LET lens == {Len(assetReturns[i]) : i \in 1..Len(assetReturns)}
  IN  CHOOSE l \in lens : \A k \in lens : l <= k

\* covMatrix, the sum divided by T
covMatrixPopulation(returns) ==
  LET n == Len(returns)
      T == Len(returns[1])
      mean == Eager([i \in 1..n |-> Div(SumSeq(returns[i]), Num(T))])
      entry(i, j) ==
        Div(SumSeq([t \in 1..T |-> Mul(Sub(returns[i][t], mean[i]),
                                        Sub(returns[j][t], mean[j]))]),
            Num(T))
  IN  Eager([i \in 1..n |->
        Eager([j \in 1..n |-> IF i <= j THEN entry(i, j) ELSE entry(j, i)])])

covMatrix(returns) ==
  LET n == Len(returns)
      T == Len(returns[1])
      mean == Eager([i \in 1..n |-> Div(SumSeq(returns[i]), Num(T))])
      entry(i, j) ==
        Div(SumSeq([t \in 1..T |-> Mul(Sub(returns[i][t], mean[i]),
                                        Sub(returns[j][t], mean[j]))]),
            Num(T - 1))
  IN  Eager([i \in 1..n |->
        Eager([j \in 1..n |-> IF i <= j THEN entry(i, j) ELSE entry(j, i)])])

\* KktA, the covariances between different assets left at 0
KktADiagonalOnly(meanRets, cov) ==
  LET n == Len(meanRets)
  IN  Eager([i \in 1..(n + 2) |-> Eager([j \in 1..(n + 2) |->
         IF i <= n
           THEN IF j <= n THEN (IF i = j THEN Mul(Num(2), cov[i][j]) ELSE Zero)
                ELSE IF j = n + 1 THEN Neg(meanRets[i]) ELSE Neg(One)
         ELSE IF j > n THEN Zero
         ELSE IF i = n + 1 THEN meanRets[j] ELSE One])])

\* the KKT system of the minimum-variance problem for one target return
KktA(meanRets, cov) ==
  LET n == Len(meanRets)
  IN  Eager([i \in 1..(n + 2) |-> Eager([j \in 1..(n + 2) |->
         IF i <= n
           THEN IF j <= n THEN Mul(Num(2), cov[i][j])
                ELSE IF j = n + 1 THEN Neg(meanRets[i]) ELSE Neg(One)
         ELSE IF j > n THEN Zero
         ELSE IF i = n + 1 THEN meanRets[j] ELSE One])])

KktB(meanRets, targetRet) ==
  LET n == Len(meanRets)
  IN  Eager([i \in 1..(n + 2) |->
        IF i <= n THEN Zero ELSE IF i = n + 1 THEN targetRet ELSE One])

\* optimizeWeights, the slice taken one entry late (x.slice(1, n + 1))
optimizeWeightsSliceShifted(meanRets, cov, targetRet) ==
  LET x == solve(KktA(meanRets, cov), KktB(meanRets, targetRet))
  IN  IF x.null THEN Null ELSE Some(SubSeq(x.val, 2, Len(meanRets) + 1))

\* optimizeWeights, the equal weights returned when the system is singular
optimizeWeightsEqualWhenSingular(meanRets, cov, targetRet) ==
  LET x == solve(KktA(meanRets, cov), KktB(meanRets, targetRet))
  IN  IF x.null THEN Some([i \in 1..Len(meanRets) |-> Rat(1, Len(meanRets))])
      ELSE Some(SubSeq(x.val, 1, Len(meanRets)))

optimizeWeights(meanRets, cov, targetRet) ==
  LET x == solve(KktA(meanRets, cov), KktB(meanRets, targetRet))
  IN  IF x.null THEN Null ELSE Some(SubSeq(x.val, 1, Len(meanRets)))

Dot(u, v) == SumSeq([j \in 1..Len(u) |-> Mul(u[j], v[j])])

\* sum_i sum_j w_i * w_j * cov[i][j]
QuadForm(w, cov) ==
  SumSeq([i \in 1..Len(w) |-> SumSeq([j \in 1..Len(w) |-> Mul(Mul(w[i], w[j]), cov[i][j])])])

\* Array.prototype.sort with (a, b) => a.risk - b.risk: stable, ascending
RECURSIVE InsertByRisk(_, _)
InsertByRisk(sorted, p) ==
  IF sorted = <<>> THEN <<p>>
  ELSE IF SurdLess(p.risk, sorted[Len(sorted)].risk)
    THEN Append(InsertByRisk(SubSeq(sorted, 1, Len(sorted) - 1), p), sorted[Len(sorted)])
    ELSE Append(sorted, p)

RECURSIVE SortByRisk(_)
SortByRisk(s) ==
  IF s = <<>> THEN <<>>
  ELSE InsertByRisk(SortByRisk(SubSeq(s, 1, Len(s) - 1)), s[Len(s)])

\* the i-th target return of the sweep, i = 0..nPoints
TargetRet(meanRets, i, nPoints) ==
  LET low == MinOver(meanRets)
      high == MaxOver(meanRets)
  IN  Add(low, Mul(Sub(high, low), Div(Num(i), Num(nPoints))))

FrontierPoint(meanRets, cov, weights) ==
  [return |-> Dot(meanRets, weights),
   risk |-> Sqrt(MaxN(Zero, QuadForm(weights, cov))),
   weights |-> weights]

\* Sweep, a target whose solve fails given the point of the zero weights
\* instead of being skipped
RECURSIVE SweepKeepsFailedTargets(_, _, _, _)
SweepKeepsFailedTargets(meanRets, cov, i, nPoints) ==
  IF i > nPoints THEN <<>>
  ELSE LET w == optimizeWeights(meanRets, cov, TargetRet(meanRets, i, nPoints))
           rest == SweepKeepsFailedTargets(meanRets, cov, i + 1, nPoints)
       IN  IF w.null
             THEN <<FrontierPoint(meanRets, cov, [j \in 1..Len(meanRets) |-> Zero])>> \o rest
             ELSE <<FrontierPoint(meanRets, cov, w.val)>> \o rest

\* the sweep of computeEfficientFrontier from target i on, in sweep order
RECURSIVE Sweep(_, _, _, _)
Sweep(meanRets, cov, i, nPoints) ==
  IF i > nPoints THEN <<>>
  ELSE LET w == optimizeWeights(meanRets, cov, TargetRet(meanRets, i, nPoints))
           rest == Sweep(meanRets, cov, i + 1, nPoints)
       IN  IF w.null THEN rest ELSE <<FrontierPoint(meanRets, cov, w.val)>> \o rest

\* PriceChart.tsx, line 101: the i-th target of its own sweep
PriceChart_TargetRet(i, nPoints) == Div(Num(i), Num(nPoints))

RECURSIVE PriceChart_Sweep(_, _, _, _)
PriceChart_Sweep(meanRets, cov, i, nPoints) ==
  IF i > nPoints THEN <<>>
  ELSE LET w == optimizeWeights(meanRets, cov, PriceChart_TargetRet(i, nPoints))
           rest == PriceChart_Sweep(meanRets, cov, i + 1, nPoints)
       IN  IF w.null THEN rest ELSE <<FrontierPoint(meanRets, cov, w.val)>> \o rest

\* the computeEfficientFrontier that PriceChart.tsx exports; its covMatrix,
\* optimizeWeights and solve are copies of those of markowitz.ts
PriceChart_computeEfficientFrontier(assetReturns, nPoints) ==
  IF Len(assetReturns) = 0 THEN <<>>
  ELSE IF MinLen(assetReturns) < 2 THEN <<>>
  ELSE LET returns == Eager([i \in 1..Len(assetReturns) |->
                         LastK(assetReturns[i], MinLen(assetReturns))])
           meanRets == Eager([i \in 1..Len(returns) |-> Mean(returns[i])])
           cov == covMatrix(returns)
       IN  SortByRisk(PriceChart_Sweep(meanRets, cov, 0, nPoints))

\* computeEfficientFrontier, a series of fewer than 2 observations answered
\* with one point at the origin instead of the empty list
computeEfficientFrontierPointWhenShort(assetReturns, nPoints) ==
  IF Len(assetReturns) = 0 THEN <<>>
  ELSE IF MinLen(assetReturns) < 2
    THEN <<[return |-> Zero, risk |-> Sqrt(Zero), weights |-> <<>>]>>
  ELSE LET returns == Eager([i \in 1..Len(assetReturns) |->
                         LastK(assetReturns[i], MinLen(assetReturns))])
           meanRets == Eager([i \in 1..Len(returns) |-> Mean(returns[i])])
           cov == covMatrix(returns)
       IN  SortByRisk(Sweep(meanRets, cov, 0, nPoints))

\* computeEfficientFrontier, the points returned in sweep order
computeEfficientFrontierUnsorted(assetReturns, nPoints) ==
  IF Len(assetReturns) = 0 THEN <<>>
  ELSE IF MinLen(assetReturns) < 2 THEN <<>>
  ELSE LET returns == Eager([i \in 1..Len(assetReturns) |->
                         LastK(assetReturns[i], MinLen(assetReturns))])
           meanRets == Eager([i \in 1..Len(returns) |-> Mean(returns[i])])
           cov == covMatrix(returns)
       IN  Sweep(meanRets, cov, 0, nPoints)

computeEfficientFrontier(assetReturns, nPoints) ==
  IF Len(assetReturns) = 0 THEN <<>>
  ELSE IF MinLen(assetReturns) < 2 THEN <<>>
  ELSE LET returns == Eager([i \in 1..Len(assetReturns) |->
                         LastK(assetReturns[i], MinLen(assetReturns))])
           meanRets == Eager([i \in 1..Len(returns) |-> Mean(returns[i])])
           cov == covMatrix(returns)
       IN  SortByRisk(Sweep(meanRets, cov, 0, nPoints))

\* maxSharpeWeights, the weights divided by their number instead of their sum
maxSharpeWeightsOverCount(meanRets, cov, riskFree) ==
  IF Len(meanRets) = 0 THEN Null
  ELSE LET excess == Eager([i \in 1..Len(meanRets) |-> Sub(meanRets[i], riskFree)])
           covInv == invertMatrix(cov)
       IN  IF covInv.null THEN Null
           ELSE LET w == matVec(covInv.val, excess)
                    sum == SumSeq(w)
                IN  IF BelowTol(sum, SUM_TOL_EXP) THEN Null
                    ELSE Some(Eager([i \in 1..Len(w) |-> Div(w[i], Num(Len(w)))]))

\* maxSharpeWeights, the guard written sum < 1e-12 (no Math.abs)
maxSharpeWeightsSignedGuard(meanRets, cov, riskFree) ==
  IF Len(meanRets) = 0 THEN Null
  ELSE LET excess == Eager([i \in 1..Len(meanRets) |-> Sub(meanRets[i], riskFree)])
           covInv == invertMatrix(cov)
       IN  IF covInv.null THEN Null
           ELSE LET w == matVec(covInv.val, excess)
                    sum == SumSeq(w)
                IN  IF Sign(sum) < 0 \/ BelowTol(sum, SUM_TOL_EXP) THEN Null
                    ELSE Some(Eager([i \in 1..Len(w) |-> Div(w[i], sum)]))

maxSharpeWeights(meanRets, cov, riskFree) ==
  IF Len(meanRets) = 0 THEN Null
  ELSE LET excess == Eager([i \in 1..Len(meanRets) |-> Sub(meanRets[i], riskFree)])
           covInv == invertMatrix(cov)
       IN  IF covInv.null THEN Null
           ELSE LET w == matVec(covInv.val, excess)
                    sum == SumSeq(w)
                IN  IF BelowTol(sum, SUM_TOL_EXP) THEN Null
                    ELSE Some(Eager([i \in 1..Len(w) |-> Div(w[i], sum)]))

\* portfolioSharpe, the risk-free rate not subtracted
portfolioSharpeNoRiskFree(weights, meanRets, cov, riskFree) ==
  LET ret_ == SumSeq([j \in 1..Len(meanRets) |-> Mul(meanRets[j], weights[j])])
      var_ == QuadForm(weights, cov)
      vol == Sqrt(MaxN(Zero, var_))
  IN  IF SurdSign(vol) > 0 THEN DivBySurd(ret_, vol) ELSE SurdZero

portfolioSharpe(weights, meanRets, cov, riskFree) ==
  LET ret_ == SumSeq([j \in 1..Len(meanRets) |-> Mul(meanRets[j], weights[j])])
      var_ == QuadForm(weights, cov)
      vol == Sqrt(MaxN(Zero, var_))
  IN  IF SurdSign(vol) > 0 THEN DivBySurd(Sub(ret_, riskFree), vol) ELSE SurdZero

----------------------------------------------------------------------------
(* Inputs.                                                                 *)

Pct(k) == Dec(k, -2)

\* daily return series, in percent: two of four observations, one of
\* two, one constant, one of a single observation, one empty
Catalog ==
  { <<Pct(2), Pct(-1), Pct(0), Pct(3)>>,
    <<Pct(-2), Pct(1), Pct(-1), Pct(-2)>>,
    <<Pct(3), Pct(0)>>,
    <<Pct(1), Pct(1), Pct(1)>>,
    <<Pct(1)>>,
    <<>> }

MaxAssets == 3
MaxPoints == 2

\* bounds of the calls of PriceChart.tsx's computeEfficientFrontier: its
\* targets 0..1 lie far from the means, and the weights they give need wide
\* integers when there are more assets
ChartMaxAssets == 2
ChartMaxPoints == 3

RECURSIVE Tuples(_, _)
Tuples(S, k) == IF k = 0 THEN {<<>>} ELSE {Append(t, x) : t \in Tuples(S, k - 1), x \in S}

TuplesUpTo(S, k) == UNION {Tuples(S, i) : i \in 0..k}

\* the moments the pages hand to the optimisers: series cut to the shortest,
\* then the mean vector and the sample covariance matrix
Moments(series) ==
  LET returns == Eager([i \in 1..Len(series) |-> LastK(series[i], MinLen(series))])
  IN  [meanRets |-> Eager([i \in 1..Len(returns) |-> Mean(returns[i])]),
       cov |-> covMatrix(returns)]

TwoAssetCov == <<<<Pct(4), Pct(1)>>, <<Pct(1), Pct(9)>>>>

\* hand-made universes: the two-asset scenario, and one whose unnormalised
\* max-Sharpe weights cancel at the default risk-free rate
Scenarios ==
  { [meanRets |-> <<Pct(8), Pct(12)>>, cov |-> TwoAssetCov],
    [meanRets |-> <<Pct(1), Pct(12)>>, cov |-> TwoAssetCov] }

\* single assets of variance 1e12
LargeVariance ==
  { [meanRets |-> <<Dec(1, -1)>>, cov |-> <<<<Dec(1, 12)>>>>],
    [meanRets |-> <<One>>, cov |-> <<<<Dec(1, 12)>>>>] }

NoAssets == [meanRets |-> <<>>, cov |-> <<>>]

CatalogUniverses ==
  {Moments(t) : t \in {u \in TuplesUpTo(Catalog, MaxAssets) : Len(u) > 0 /\ MinLen(u) >= 2}}

Universes == CatalogUniverses \cup Scenarios \cup LargeVariance \cup {NoAssets}

RiskFreeRates == {RISK_FREE, Zero}

UnitVec(n, k) == [i \in 1..n |-> IF i = k THEN One ELSE Zero]

\* weight vectors handed to portfolioSharpe: single assets, equal weights,
\* nothing invested, and a long-short split of the first two assets
WeightsFor(n) ==
  {UnitVec(n, k) : k \in 1..n}
    \cup {[i \in 1..n |-> Rat(1, n)], [i \in 1..n |-> Zero]}
    \cup (IF n >= 2
            THEN {[i \in 1..n |-> IF i = 1 THEN Rat(3, 2) ELSE IF i = 2 THEN Rat(-1, 2) ELSE Zero]}
            ELSE {})

SmallInts == {Num(-1), Num(0), Num(1), Num(2)}

SmallMatrices ==
  {<<<<a, b>>, <<c, d>>>> : a \in SmallInts, b \in SmallInts, c \in SmallInts, d \in SmallInts}

\* 1 x 1 matrices at and next to the tolerances 1e-12 and 1e-10
EdgeMatrices ==
  {<<<<Dec(1, -12)>>>>, <<<<Dec(-1, -12)>>>>, <<<<Dec(9, -13)>>>>,
   <<<<Dec(1, -10)>>>>, <<<<Dec(9, -11)>>>>, <<<<Dec(11, -11)>>>>}

\* the covariance matrices of the universes, and that of the single series
\* <<0, 1e7>> (variance 5e13)
CovMatrices == {u.cov : u \in Universes} \cup {covMatrix(<<<<Zero, Dec(1, 7)>>>>)}

\* matrices handed to invertMatrix
Matrices == CovMatrices \cup SmallMatrices \cup EdgeMatrices

\* the KKT systems of the sweep's first and last target
KktSystems ==
  UNION {{[A |-> KktA(u.meanRets, u.cov),
           b |-> KktB(u.meanRets, TargetRet(u.meanRets, i, 1))] : i \in 0..1}
         : u \in CatalogUniverses \cup Scenarios}

\* systems handed to solve
Systems ==
  KktSystems
    \cup {[A |-> A, b |-> <<x, y>>] : A \in SmallMatrices, x \in {Num(1)}, y \in {Num(0), Num(3)}}
    \cup {[A |-> A, b |-> <<One>>] : A \in EdgeMatrices}

----------------------------------------------------------------------------
(* OptimizationPage.tsx: the page's state and computeOptimal.  The         *)
(* optimizers it imports, maxSharpeWeightsLongOnly and minVarianceWeights, *)
(* are not part of src/lib/markowitz.ts: their result is a choice between  *)
(* null and a weight vector.                                               *)

\* 0 / 0
NaN == <<0, 0, 0>>

IsNaN(x) == x[2] = 0

OptMaxAssets == 2

OptSymbols == <<"AAA", "BBB", "CCC">>

\* what loadAssets can store: the first k symbols, in symbol order
AssetLists == {SubSeq(OptSymbols, 1, k) : k \in 0..OptMaxAssets}

\* closing prices getDailyTimeSeries can give for a symbol; the empty
\* series stands for no series and for a failed request
PriceSeries ==
  { <<>>,
    <<Num(100)>>,
    <<Num(100), Num(110), Num(99)>> }

NoMetrics == [null |-> TRUE]

NoRun == [ran |-> FALSE]

InitialPage ==
  [assets |-> <<>>, strategy |-> "maxSharpe", historyPeriod |-> "3y",
   allocation |-> <<>>, metrics |-> NoMetrics, evolutionData |-> <<>>,
   error |-> "null", pending |-> TRUE, last |-> NoRun]

\* DailyReturns, of the first minLen closes (slice(0, minLen))
DailyReturnsFromStart(closes, minLen) ==
  LET c == SubSeq(closes, 1, minLen)
  IN  Eager([i \in 1..(Len(c) - 1) |-> Div(Sub(c[i + 1], c[i]), c[i])])

\* lines 102-107: the daily returns of the last minLen closes
DailyReturns(closes, minLen) ==
  LET c == LastK(closes, minLen)
  IN  Eager([i \in 1..(Len(c) - 1) |-> Div(Sub(c[i + 1], c[i]), c[i])])

\* line 108
MeanRetAnn(r) ==
  IF Len(r) = 0 THEN NaN ELSE Mul(Div(SumSeq(r), Num(Len(r))), Num(252))

\* lines 109-123: the sample covariance, 0 when T <= 1
OptCovDaily(returns) ==
  LET n == Len(returns)
      T == Len(returns[1])
      mean == [i \in 1..n |-> IF T = 0 THEN NaN ELSE Div(SumSeq(returns[i]), Num(T))]
      entry(i, j) ==
        IF T > 1
          THEN Div(SumSeq([t \in 1..T |-> Mul(Sub(returns[i][t], mean[i]),
                                               Sub(returns[j][t], mean[j]))]),
                   Num(T - 1))
          ELSE Zero
  IN  Eager([i \in 1..n |-> Eager([j \in 1..n |-> entry(i, j)])])

\* line 124
OptCovAnn(covDaily) ==
  Eager([i \in 1..Len(covDaily) |->
     Eager([j \in 1..Len(covDaily[i]) |-> Mul(covDaily[i][j], Num(252))])])

\* what maxSharpeWeightsLongOnly or minVarianceWeights may return for n
\* assets: null, or non-negative weights that sum to 1
OptimizerOutcomes(n) ==
  {Null, Some([i \in 1..n |-> Rat(1, n)]), Some(UnitVec(n, 1))}

\* what computeEvolution may return: nothing, or the value of the
\* portfolio at the dates common to the series fetched again
EvolutionOutcomes ==
  {<<>>, <<[date |-> "d1", value |-> One], [date |-> "d2", value |-> Rat(11, 10)]>>}

\* lines 145-158
OptMetrics(w, meanRetsAnn, covAnn) ==
  LET nan == \E j \in 1..Len(meanRetsAnn) : IsNaN(meanRetsAnn[j])
      portVar == QuadForm(w, covAnn)
      stdDev == Sqrt(MaxN(Zero, portVar))
  IN  [null |-> FALSE,
       expectedReturn |-> IF nan THEN NaN ELSE Mul(Dot(meanRetsAnn, w), Num(100)),
       stdDev |-> [c |-> Mul(stdDev.c, Num(100)), r |-> stdDev.r],
       sharpeRatio |-> IF SurdSign(stdDev) > 0
                         THEN (IF nan THEN NaN
                               ELSE portfolioSharpe(w, meanRetsAnn, covAnn, RISK_FREE))
                         ELSE SurdZero]

\* OptimizationFailed, the evolution data left as they were (as in the
\* branch of lines 94-100)
OptimizationFailedKeepsEvolution(p, run) ==
  [p EXCEPT !.error = "impossible", !.allocation = <<>>, !.metrics = NoMetrics,
            !.last = run]

\* lines 131-138: the optimizer returned null
OptimizationFailed(p, run) ==
  [p EXCEPT !.error = "impossible", !.allocation = <<>>, !.metrics = NoMetrics,
            !.evolutionData = <<>>, !.last = run]

\* computeOptimal, lines 76-168, on the page p: fetched[i] is the series
\* got for p.assets[i], optW what the optimizer returns if it is called,
\* evo what computeEvolution returns if it is called
computeOptimal(p, fetched, optW, evo) ==
  IF Len(p.assets) < 2 THEN p
  ELSE
    LET usable == {i \in 1..Len(p.assets) : Len(fetched[i]) > 0}
        seriesList == Eager([k \in 1..Cardinality(usable) |->
           LET i == CHOOSE x \in usable : Cardinality({y \in usable : y < x}) = k - 1
           IN  [symbol |-> p.assets[i], closes |-> fetched[i]]])
    IN  IF Len(seriesList) < 2
          THEN [p EXCEPT !.error = "insufficient", !.allocation = <<>>,
                         !.metrics = NoMetrics,
                         !.last = [ran |-> TRUE, usable |-> Len(seriesList),
                                   minLen |-> 0, optimizerCalled |-> FALSE]]
          ELSE
            LET minLen == MinLen([k \in 1..Len(seriesList) |-> seriesList[k].closes])
                returns == Eager([k \in 1..Len(seriesList) |->
                              DailyReturns(seriesList[k].closes, minLen)])
                meanRetsAnn == Eager([k \in 1..Len(returns) |-> MeanRetAnn(returns[k])])
                covAnn == OptCovAnn(OptCovDaily(returns))
                run == [ran |-> TRUE, usable |-> Len(seriesList), minLen |-> minLen,
                        optimizerCalled |-> TRUE,
                        optimizer |-> IF p.strategy = "maxSharpe"
                                        THEN "maxSharpeWeightsLongOnly"
                                        ELSE "minVarianceWeights",
                        weights |-> optW]
            IN  IF optW.null
                  THEN OptimizationFailed(p, run)
                  ELSE [p EXCEPT !.error = "null",
                                 !.allocation = Eager([k \in 1..Len(seriesList) |->
                                    [symbol |-> seriesList[k].symbol,
                                     weight |-> optW.val[k], amount |-> 0]]),
                                 !.metrics = OptMetrics(optW.val, meanRetsAnn, covAnn),
                                 !.evolutionData = evo,
                                 !.last = run]

----------------------------------------------------------------------------
(* PortfolioPage.tsx: the choice of the symbols of the frontier in         *)
(* loadFrontierAndPortfolio.  The choice reads only the lengths of the     *)
(* price series, so a series is represented by its length.                 *)

MAX_FRONTIER_SYMBOLS == 120

\* loadSp500FromSupabase keeps the symbols of at least 60 closes (line 120)
MIN_CLOSES == 60

MaxSymbols == 122

\* the maps loadSp500FromSupabase can return, in insertion order: the i-th
\* symbol with MIN_CLOSES closes, one symbol at most with one close more
Sp500Maps ==
  UNION {{[i \in 1..n |-> [sym |-> i,
                           closes |-> IF i = long THEN MIN_CLOSES + 1 ELSE MIN_CLOSES]]
          : long \in 0..n}
         : n \in {0, 1, 2} \cup ((MAX_FRONTIER_SYMBOLS - 1)..MaxSymbols)}

\* Math.min over the lengths of the series
MinCloses(m) ==
  LET lens == {m[i].closes : i \in 1..Len(m)}
  IN  CHOOSE x \in lens : \A y \in lens : x <= y

\* Array.prototype.sort with (a, b) => b.len - a.len: descending and
\* stable (ECMAScript 2019), so an element goes after the longer ones and
\* after the equally long ones that came before it
SortByLen(s) ==
  LET n == Len(s)
      rank == Eager([i \in 1..n |->
                Cardinality({j \in 1..n : \/ s[j].len > s[i].len
                                          \/ (s[j].len = s[i].len /\ j < i)}) + 1])
  IN  Eager([k \in 1..n |-> s[CHOOSE i \in 1..n : rank[i] = k]])

\* byLen.slice(0, MAX_FRONTIER_SYMBOLS), the cap left out
SelectSymbolsNoCap(byLen) == [k \in 1..Len(byLen) |-> byLen[k].sym]

\* line 155
SelectSymbols(byLen) ==
  LET top == SubSeq(byLen, 1, IF Len(byLen) < MAX_FRONTIER_SYMBOLS
                                THEN Len(byLen) ELSE MAX_FRONTIER_SYMBOLS)
  IN  [k \in 1..Len(top) |-> top[k].sym]

\* loadFrontierAndPortfolio, lines 129-199, for the map m: the symbols
\* selected and the number of assets of each argument built from them; the
\* numbers drawn from the arguments (points, frontier, optimal point) are
\* not part of the result
loadFrontierAndPortfolio(m) ==
  IF Len(m) = 0
    THEN [selectedSymbols |-> <<>>, momentAssets |-> 0, frontierAssets |-> 0,
          optimizerAssets |-> 0, observations |-> 0]
  ELSE
    LET minLen == MinCloses(m)
        commonCloses == [i \in 1..Len(m) |-> IF m[i].closes < minLen THEN m[i].closes ELSE minLen]
        byLen == SortByLen([i \in 1..Len(m) |-> [sym |-> m[i].sym, len |-> commonCloses[i]]])
        selectedSymbols == SelectSymbols(byLen)
        selectedIdx == [k \in 1..Len(selectedSymbols) |->
                          CHOOSE i \in 1..Len(m) : m[i].sym = selectedSymbols[k]]
        frontierCloses == [k \in 1..Len(selectedIdx) |-> commonCloses[selectedIdx[k]]]
        frontierReturns == [k \in 1..Len(frontierCloses) |-> frontierCloses[k] - 1]
    IN  [selectedSymbols |-> selectedSymbols,
         momentAssets |-> Len(frontierReturns),
         frontierAssets |-> Len(frontierReturns),
         optimizerAssets |-> Len(frontierReturns),
         observations |-> minLen - 1]

----------------------------------------------------------------------------
(* The covariance computations: covMatrix of markowitz.ts, buildCovMatrix  *)
(* of PortfolioPage.tsx and the loop written out in the                    *)
(* loadFrontierAndPortfolio of PortfolioPage.tsx that starts at line 544.  *)

CovMaxAssets == 2

CovMaxObs == 3

CovValues == {Pct(-1), Pct(2)}

\* n return series of T observations each
CovInputs(Ns, Ts) == UNION {Tuples(Tuples(CovValues, T), n) : n \in Ns, T \in Ts}

\* PortfolioPage.tsx, lines 290-307
buildCovMatrix(returns) ==
  LET n == Len(returns)
      T == IF n = 0 THEN 0 ELSE Len(returns[1])
      mean == Eager([i \in 1..n |-> IF T = 0 THEN NaN ELSE Div(SumSeq(returns[i]), Num(T))])
      entry(i, j) ==
        IF T > 1
          THEN Div(SumSeq([t \in 1..T |-> Mul(Sub(returns[i][t], mean[i]),
                                               Sub(returns[j][t], mean[j]))]),
                   Num(T - 1))
          ELSE Zero
  IN  Eager([i \in 1..n |-> Eager([j \in 1..n |-> entry(i, j)])])

\* PortfolioPage.tsx, lines 585-598: s / (returns[0].length - 1) with no
\* test of the length.  With one observation the deviation is r - r / 1 = 0
\* and the entry is 0 / 0; with none the sum is empty and the entry 0 / -1.
InlineCov(returns) ==
  LET n == Len(returns)
      T == Len(returns[1])
      meanRets == Eager([i \in 1..n |-> IF T = 0 THEN NaN ELSE Div(SumSeq(returns[i]), Num(T))])
      s(i, j) == SumSeq([t \in 1..T |-> Mul(Sub(returns[i][t], meanRets[i]),
                                            Sub(returns[j][t], meanRets[j]))])
      entry(i, j) ==
        IF T = 1 THEN NaN
        ELSE IF T = 0 THEN Zero
        ELSE Div(s(i, j), Num(T - 1))
  IN  Eager([i \in 1..n |-> Eager([j \in 1..n |-> entry(i, j)])])

----------------------------------------------------------------------------
(* The preparation of the return series from the price series.             *)

RetMaxAssets == 2

RetMaxLen == 3

ClosePrices == {Num(100), Num(110)}

\* the lists of fetched price series: a series in the list has a close at
\* least (res?.series?.length)
ClosesLists(Ns) ==
  UNION {Tuples(UNION {Tuples(ClosePrices, l) : l \in 1..RetMaxLen}, n) : n \in Ns}

\* OptimizationPage.tsx, lines 101-107
OptReturns(closesList) ==
  LET minLen == MinLen(closesList)
  IN  Eager([k \in 1..Len(closesList) |-> DailyReturns(closesList[k], minLen)])

\* PortfolioPage.tsx, lines 243-250
UserReturns(closesList) ==
  LET userMinLen == MinLen(closesList)
  IN  Eager([k \in 1..Len(closesList) |->
        LET c == LastK(closesList[k], userMinLen)
        IN  Eager([i \in 1..(Len(c) - 1) |-> Div(Sub(c[i + 1], c[i]), c[i])])])

----------------------------------------------------------------------------
(* scripts/populate-sp500.mjs: the loop of main.  Time is counted in       *)
(* milliseconds; a timer fires at its delay or later, a fetch (with the    *)
(* upsert of its rows) takes some time and ends in one of four ways.       *)

IngestMaxSymbols == 2

DELAY_MS == 12000

LIMIT_WAIT_MS == 60000

\* DELAY_MS of the environment: the default, or the value for a premium key
DelayValues == {800, DELAY_MS}

TimerLateness == {0, 5}

FetchDurations == {0, 300}

\* rows upserted; no row; an error thrown by the fetch or the upsert, its
\* message with or without 'limit'
AttemptOutcomes == {"rows", "noData", "error", "limitError"}

IngestIdle == [at |-> "idle"]

\* the symbols of sp500-symbols.json, named by their position in the list
SymbolList(n) == [k \in 1..n |-> k]

\* AfterAttempt, the branch of no data going on (continue) without its delay
AfterAttemptNoDataContinues(ing, outcome) ==
  IF outcome = "noData" THEN [ing EXCEPT !.at = "loop", !.i = ing.i + 1]
  ELSE IF outcome = "limitError" THEN [ing EXCEPT !.at = "limitWait"]
  ELSE [ing EXCEPT !.at = "delay"]

\* lines 63-81: where main is after the attempt of a symbol
AfterAttempt(ing, outcome) ==
  IF outcome = "limitError" THEN [ing EXCEPT !.at = "limitWait"]
  ELSE [ing EXCEPT !.at = "delay"]

----------------------------------------------------------------------------
(* OptimizationPage.tsx: computeOptimal as the asynchronous function it    *)
(* is.  A call runs to its first await when the effect starts it, goes on  *)
(* when its series are fetched and ends when computeEvolution returned;    *)
(* the effect starts a call at every change, also while others run.        *)

MaxCalls == 2

\* lines 76-79, for a list of two assets at least: the call reads assets,
\* strategy and historyPeriod of the render that started it
StartCall(p) ==
  [assets |-> p.assets, strategy |-> p.strategy, historyPeriod |-> p.historyPeriod,
   at |-> "fetching"]

\* lines 50-59 after a change that led to the page p
EffectOn(p) ==
  IF Len(p.assets) < 2
    THEN [p EXCEPT !.allocation = <<>>, !.metrics = NoMetrics, !.evolutionData = <<>>,
                   !.error = "null", !.pending = FALSE, !.last = NoRun]
    ELSE [p EXCEPT !.error = "null", !.pending = FALSE, !.last = NoRun]

\* lines 94-158 of the call c on the page p, the series fetched: the state
\* setters called before the await of computeEvolution, or before a return
AfterFetches(p, c, fetched, optW) ==
  LET q == [p EXCEPT !.assets = c.assets, !.strategy = c.strategy,
                     !.historyPeriod = c.historyPeriod]
      r == computeOptimal(q, fetched, optW, p.evolutionData)
      returned == r.last.usable < 2 \/ optW.null
  IN  [page |-> [r EXCEPT !.assets = p.assets, !.strategy = p.strategy,
                          !.historyPeriod = p.historyPeriod,
                          !.error = IF returned THEN r.error ELSE p.error],
       returned |-> returned]

----------------------------------------------------------------------------
(* src/src/lib/metrics.ts.  A date is the record of its year (its first    *)
(* four characters) and of the rank of the day in the series.              *)

MetricsMaxLen == 3

RISK_FREE_RATE == Dec(4, -2)

MetricsCloses == {Num(50), Num(100), Num(200)}

\* the series computeMetrics is given: positive closes, dates in ascending
\* order
MetricsSeries ==
  UNION {{[k \in 1..l |-> [date |-> [year |-> IF k <= turn THEN "2023" ELSE "2024", day |-> k],
                           close |-> c[k]]]
          : c \in Tuples(MetricsCloses, l), turn \in 0..l}
         : l \in 0..MetricsMaxLen}

\* rets.reduce((acc, r) => acc * (1 + r), 1)
RECURSIVE Compound(_)
Compound(rets) ==
  IF rets = <<>> THEN One
  ELSE Mul(Compound(SubSeq(rets, 1, Len(rets) - 1)), Add(One, rets[Len(rets)]))

\* lines 45-51 after the closes 1..k: the peak and the largest drawdown
RECURSIVE DrawdownLoop(_, _)
DrawdownLoop(closes, k) ==
  IF k = 0 THEN [peak |-> closes[1], maxDrawdown |-> Zero]
  ELSE LET before == DrawdownLoop(closes, k - 1)
           c == closes[k]
           peak == IF Less(before.peak, c) THEN c ELSE before.peak
           dd == Div(Sub(peak, c), peak)
       IN  [peak |-> peak,
            maxDrawdown |-> IF Less(before.maxDrawdown, dd) THEN dd ELSE before.maxDrawdown]

\* MaxDrawdown, the peak left at the first close
MaxDrawdownFromFirstClose(closes) ==
  LET dds == {Div(Sub(closes[1], closes[k]), closes[1]) : k \in 1..Len(closes)}
  IN  CHOOSE d \in dds : \A e \in dds : Leq(e, d)

MaxDrawdown(closes) == DrawdownLoop(closes, Len(closes)).maxDrawdown

computeMetrics(series) ==
  IF Len(series) < 2
    THEN [yearlyReturns |-> <<>>, volatility |-> SurdZero, maxDrawdown |-> Zero,
          sharpeRatio |-> SurdZero]
  ELSE
    LET closes == Eager([k \in 1..Len(series) |-> series[k].close])
        returns == Eager([i \in 1..(Len(closes) - 1) |->
                      Div(Sub(closes[i + 1], closes[i]), closes[i])])
        years == {series[i].date.year : i \in 2..Len(series)}
        byYear(y) == LET idx == {i \in 2..Len(series) : series[i].date.year = y}
                     IN  [k \in 1..Cardinality(idx) |->
                            returns[(CHOOSE i \in idx : Cardinality({j \in idx : j < i}) = k - 1) - 1]]
        mean == Div(SumSeq(returns), Num(Len(returns)))
        variance == Div(SumSeq([i \in 1..Len(returns) |->
                                  Mul(Sub(returns[i], mean), Sub(returns[i], mean))]),
                        Num(Len(returns)))
        volatility == Sqrt(Mul(variance, Num(252)))
        excessReturn == Sub(Mul(mean, Num(252)), RISK_FREE_RATE)
    IN  [yearlyReturns |-> [y \in years |-> Sub(Compound(byYear(y)), One)],
         volatility |-> volatility,
         maxDrawdown |-> MaxDrawdown(closes),
         sharpeRatio |-> IF SurdSign(volatility) > 0
                           THEN DivBySurd(excessReturn, volatility) ELSE SurdZero]

----------------------------------------------------------------------------
(* PortfolioPage.tsx: the weights of the portfolio of the user in          *)
(* loadFrontierAndPortfolio, lines 219-262.                                *)

WeightMaxAssets == 3

\* the weight column of portfolio_assets: a number, or null
StoredWeights == {Null, Some(Zero), Some(One), Some(Num(3))}

\* the assets of the user, named by their rank in symbol order, each with
\* its stored weight and with or without a price series to be had
UserPortfolios ==
  UNION {{[k \in 1..n |-> [symbol |-> k, weight |-> w[k], hasSeries |-> h[k]]]
          : w \in Tuples(StoredWeights, n), h \in Tuples(BOOLEAN, n)}
         : n \in 1..WeightMaxAssets}

\* a.weight ?? 1
WeightOrOne(a) == IF a.weight.null THEN One ELSE a.weight.val

\* lines 219-262: the symbols of userSeriesList, weights and normWeights
UserWeights(assets) ==
  LET has == {i \in 1..Len(assets) : assets[i].hasSeries}
      userSeriesList == [k \in 1..Cardinality(has) |->
         assets[CHOOSE i \in has : Cardinality({j \in has : j < i}) = k - 1].symbol]
      len == Len(userSeriesList)
      weights == [k \in 1..len |-> Div(WeightOrOne(assets[k]), Num(len))]
      sumW == SumSeq(weights)
      normWeights == IF Sign(sumW) > 0
                       THEN [k \in 1..len |-> Div(weights[k], sumW)]
                       ELSE weights
  IN  [symbols |-> userSeriesList, weights |-> weights, normWeights |-> normWeights]

NoCall == [fn |-> "none"]

Init ==
  /\ pc = "idle"
  /\ fn = "none"
  /\ args = <<>>
  /\ ret = <<>>
  /\ aug = <<>>
  /\ col = 0
  /\ prev = NoCall
  /\ page = InitialPage
  /\ calls = <<>>
  /\ computing = FALSE
  /\ ingest = IngestIdle

CallComputeEfficientFrontier ==
  /\ pc = "idle"
  /\ \E assetReturns \in TuplesUpTo(Catalog, MaxAssets), nPoints \in 1..MaxPoints :
       /\ args' = [assetReturns |-> assetReturns, nPoints |-> nPoints]
       /\ ret' = computeEfficientFrontier(assetReturns, nPoints)
  /\ fn' = "computeEfficientFrontier"
  /\ pc' = "done"
  /\ UNCHANGED <<aug, col, prev, page, calls, computing, ingest>>

CallPriceChartComputeEfficientFrontier ==
  /\ pc = "idle"
  /\ \E assetReturns \in TuplesUpTo(Catalog, ChartMaxAssets), nPoints \in 1..ChartMaxPoints :
       /\ args' = [assetReturns |-> assetReturns, nPoints |-> nPoints]
       /\ ret' = PriceChart_computeEfficientFrontier(assetReturns, nPoints)
  /\ fn' = "PriceChart.computeEfficientFrontier"
  /\ pc' = "done"
  /\ UNCHANGED <<aug, col, prev, page, calls, computing, ingest>>

CallMaxSharpeWeights ==
  /\ pc = "idle"
  /\ \E u \in Universes, riskFree \in RiskFreeRates :
       /\ args' = [meanRets |-> u.meanRets, cov |-> u.cov, riskFree |-> riskFree]
       /\ ret' = maxSharpeWeights(u.meanRets, u.cov, riskFree)
  /\ fn' = "maxSharpeWeights"
  /\ pc' = "done"
  /\ UNCHANGED <<aug, col, prev, page, calls, computing, ingest>>

CallPortfolioSharpe ==
  /\ pc = "idle"
  /\ \E u \in Universes, riskFree \in RiskFreeRates :
       \E weights \in WeightsFor(Len(u.meanRets)) :
         /\ args' = [weights |-> weights, meanRets |-> u.meanRets, cov |-> u.cov,
                     riskFree |-> riskFree]
         /\ ret' = portfolioSharpe(weights, u.meanRets, u.cov, riskFree)
  /\ fn' = "portfolioSharpe"
  /\ pc' = "done"
  /\ UNCHANGED <<aug, col, prev, page, calls, computing, ingest>>

\* optimizeWeights on the moments of a universe, for a target of the sweep
\* or one outside the range of the means
CallOptimizeWeights ==
  /\ pc = "idle"
  /\ \E u \in CatalogUniverses \cup Scenarios :
       \E targetRet \in {TargetRet(u.meanRets, i, MaxPoints) : i \in 0..MaxPoints}
                          \cup {Zero, Pct(10)} :
         /\ args' = [meanRets |-> u.meanRets, cov |-> u.cov, targetRet |-> targetRet]
         /\ ret' = optimizeWeights(u.meanRets, u.cov, targetRet)
  /\ fn' = "optimizeWeights"
  /\ pc' = "done"
  /\ UNCHANGED <<aug, col, prev, page, calls, computing, ingest>>

\* loadAssets, lines 61-74: the assets are stored, or the list is emptied
\* and an error shown when the request fails
LoadAssets ==
  /\ \/ \E list \in AssetLists :
          page' = [page EXCEPT !.assets = list, !.last = NoRun,
                               !.pending = (list # page.assets) \/ page.pending]
     \/ page' = [page EXCEPT !.assets = <<>>, !.error = "loadError", !.last = NoRun,
                             !.pending = (page.assets # <<>>) \/ page.pending]
  /\ UNCHANGED <<pc, fn, args, ret, aug, col, prev, calls, computing, ingest>>

\* the strategy radio buttons, lines 302 and 314
SetStrategy ==
  /\ \E st \in {"maxSharpe", "minVariance"} :
       /\ st # page.strategy
       /\ page' = [page EXCEPT !.strategy = st, !.pending = TRUE, !.last = NoRun]
  /\ UNCHANGED <<pc, fn, args, ret, aug, col, prev, calls, computing, ingest>>

\* the period radio buttons, lines 274 and 284
SetHistoryPeriod ==
  /\ \E hp \in {"1y", "3y"} :
       /\ hp # page.historyPeriod
       /\ page' = [page EXCEPT !.historyPeriod = hp, !.pending = TRUE, !.last = NoRun]
  /\ UNCHANGED <<pc, fn, args, ret, aug, col, prev, calls, computing, ingest>>

\* the effect of lines 50-59, run after assets, strategy or historyPeriod
\* changed: the display is cleared for fewer than 2 assets, computeOptimal
\* runs otherwise
OptimizationEffect ==
  /\ page.pending
  /\ IF Len(page.assets) < 2
       THEN page' = [page EXCEPT !.allocation = <<>>, !.metrics = NoMetrics,
                                 !.evolutionData = <<>>, !.error = "null",
                                 !.pending = FALSE, !.last = NoRun]
       ELSE \E fetched \in Tuples(PriceSeries, Len(page.assets)) :
              \E optW \in OptimizerOutcomes(Cardinality({i \in 1..Len(fetched) : Len(fetched[i]) > 0})) :
                \E evo \in EvolutionOutcomes :
                  page' = [computeOptimal([page EXCEPT !.error = "null"], fetched, optW, evo)
                             EXCEPT !.pending = FALSE]
  /\ UNCHANGED <<pc, fn, args, ret, aug, col, prev, calls, computing, ingest>>

CallLoadFrontierAndPortfolio ==
  /\ pc = "idle"
  /\ \E m \in Sp500Maps :
       /\ args' = [sp500Map |-> m]
       /\ ret' = loadFrontierAndPortfolio(m)
  /\ fn' = "loadFrontierAndPortfolio"
  /\ pc' = "done"
  /\ UNCHANGED <<aug, col, prev, page, calls, computing, ingest>>

TolExp(f) == IF f = "solve" THEN SOLVE_TOL_EXP ELSE INVERT_TOL_EXP

\* solve, line 145
BeginSolve ==
  /\ pc = "idle"
  /\ \E sys \in Systems :
       /\ args' = sys
       /\ aug' = SolveAug(sys.A, sys.b)
  /\ fn' = "solve"
  /\ col' = 1
  /\ pc' = "elim"
  /\ UNCHANGED <<ret, prev, page, calls, computing, ingest>>

\* invertMatrix, line 71
BeginInvert ==
  /\ pc = "idle"
  /\ \E M \in Matrices :
       /\ args' = [M |-> M]
       /\ aug' = InvertAug(M)
  /\ fn' = "invertMatrix"
  /\ col' = 1
  /\ pc' = "elim"
  /\ UNCHANGED <<ret, prev, page, calls, computing, ingest>>

\* the arrays of the caller, had the rows of aug been the rows of the
\* argument extended in place
WrittenThrough(a) ==
  LET n == Len(a)
      left == Eager([i \in 1..n |-> SubSeq(a[i], 1, n)])
  IN  IF fn = "solve" THEN [A |-> left, b |-> SolveResult(a)] ELSE [M |-> left]

\* ElimColumn, the rows of aug shared with the argument
ElimColumnInPlace ==
  /\ pc = "elim"
  /\ col <= Len(aug)
  /\ LET r == ElimStep(aug, col, TolExp(fn))
     IN  IF r.null
           THEN /\ ret' = Null
                /\ aug' = PivotSwap(aug, col)
                /\ args' = WrittenThrough(PivotSwap(aug, col))
                /\ pc' = "done"
                /\ UNCHANGED col
           ELSE /\ aug' = r.val
                /\ args' = WrittenThrough(r.val)
                /\ col' = col + 1
                /\ UNCHANGED <<ret, pc>>
  /\ UNCHANGED <<fn, prev, page, calls, computing, ingest>>

\* one pass of the column loop of solve or invertMatrix; a pivot below the
\* tolerance ends the call with null, the rows already swapped
ElimColumn ==
  /\ pc = "elim"
  /\ col <= Len(aug)
  /\ LET r == ElimStep(aug, col, TolExp(fn))
     IN  IF r.null
           THEN /\ ret' = Null
                /\ aug' = PivotSwap(aug, col)
                /\ pc' = "done"
                /\ UNCHANGED col
           ELSE /\ aug' = r.val
                /\ col' = col + 1
                /\ UNCHANGED <<ret, pc>>
  /\ UNCHANGED <<fn, args, prev, page, calls, computing, ingest>>

\* the loop is over: the solution column, or the right half of aug
ReturnResult ==
  /\ pc = "elim"
  /\ col > Len(aug)
  /\ ret' = Some(IF fn = "solve" THEN SolveResult(aug) ELSE InvertResult(aug))
  /\ pc' = "done"
  /\ UNCHANGED <<fn, args, aug, col, prev, page, calls, computing, ingest>>

\* the inverse just returned is itself inverted
InvertAgain ==
  /\ pc = "done"
  /\ fn = "invertMatrix"
  /\ ~ret.null
  /\ prev = NoCall
  /\ prev' = [fn |-> fn, M |-> args.M]
  /\ args' = [M |-> ret.val]
  /\ aug' = InvertAug(ret.val)
  /\ col' = 1
  /\ pc' = "elim"
  /\ UNCHANGED <<fn, ret, page, calls, computing, ingest>>

\* computeEfficientFrontier calls covMatrix with at least one series, of at
\* least two observations (lines 17-24)
CallCovMatrix ==
  /\ pc = "idle"
  /\ \E returns \in CovInputs(1..CovMaxAssets, 2..CovMaxObs) :
       /\ args' = [returns |-> returns]
       /\ ret' = covMatrix(returns)
  /\ fn' = "covMatrix"
  /\ pc' = "done"
  /\ UNCHANGED <<aug, col, prev, page, calls, computing, ingest>>

CallBuildCovMatrix ==
  /\ pc = "idle"
  /\ \E returns \in CovInputs(0..CovMaxAssets, 0..CovMaxObs) :
       /\ args' = [returns |-> returns]
       /\ ret' = buildCovMatrix(returns)
  /\ fn' = "buildCovMatrix"
  /\ pc' = "done"
  /\ UNCHANGED <<aug, col, prev, page, calls, computing, ingest>>

\* the loop of lines 585-598 runs for two series at least (line 559), of
\* minLen - 1 >= 0 returns each
CallInlineCov ==
  /\ pc = "idle"
  /\ \E returns \in CovInputs(2..CovMaxAssets, 0..CovMaxObs) :
       /\ args' = [returns |-> returns]
       /\ ret' = InlineCov(returns)
  /\ fn' = "PortfolioPage.cov"
  /\ pc' = "done"
  /\ UNCHANGED <<aug, col, prev, page, calls, computing, ingest>>

NextCov == CallCovMatrix \/ CallBuildCovMatrix \/ CallInlineCov

SpecCov == Init /\ [][NextCov]_vars

\* computeOptimal goes on with two series at least (line 94)
CallOptReturns ==
  /\ pc = "idle"
  /\ \E closesList \in ClosesLists(2..RetMaxAssets) :
       /\ args' = [closesList |-> closesList]
       /\ ret' = OptReturns(closesList)
  /\ fn' = "computeOptimal.returns"
  /\ pc' = "done"
  /\ UNCHANGED <<aug, col, prev, page, calls, computing, ingest>>

\* loadFrontierAndPortfolio goes on with one user series at least (line 238)
CallUserReturns ==
  /\ pc = "idle"
  /\ \E closesList \in ClosesLists(1..RetMaxAssets) :
       /\ args' = [closesList |-> closesList]
       /\ ret' = UserReturns(closesList)
  /\ fn' = "loadFrontierAndPortfolio.userReturns"
  /\ pc' = "done"
  /\ UNCHANGED <<aug, col, prev, page, calls, computing, ingest>>

NextReturns == CallOptReturns \/ CallUserReturns

SpecReturns == Init /\ [][NextReturns]_vars

\* main is called (line 87)
IngestMain ==
  /\ ingest.at = "idle"
  /\ \E n \in 0..IngestMaxSymbols, d \in DelayValues :
       ingest' = [at |-> "loop", symbols |-> SymbolList(n), delayMs |-> d,
                  i |-> 1, now |-> 0, log |-> <<>>]
  /\ UNCHANGED <<pc, fn, args, ret, aug, col, prev, page, calls, computing>>

\* line 62: the fetch of symbols[i] starts
IngestFetch ==
  /\ ingest.at = "loop"
  /\ ingest.i <= Len(ingest.symbols)
  /\ ingest' = [ingest EXCEPT
                  !.at = "fetching",
                  !.log = Append(@, [sym |-> ingest.symbols[ingest.i],
                                     start |-> ingest.now, end |-> -1,
                                     outcome |-> "pending"])]
  /\ UNCHANGED <<pc, fn, args, ret, aug, col, prev, page, calls, computing>>

\* lines 62-81: the attempt ends
IngestAttemptEnds ==
  /\ ingest.at = "fetching"
  /\ \E outcome \in AttemptOutcomes, d \in FetchDurations :
       ingest' = AfterAttempt(
                   [ingest EXCEPT !.now = @ + d,
                                  !.log[Len(ingest.log)].end = ingest.now + d,
                                  !.log[Len(ingest.log)].outcome = outcome],
                   outcome)
  /\ UNCHANGED <<pc, fn, args, ret, aug, col, prev, page, calls, computing>>

\* line 78: await delay(60000)
IngestLimitWait ==
  /\ ingest.at = "limitWait"
  /\ \E late \in TimerLateness :
       ingest' = [ingest EXCEPT !.at = "delay", !.now = @ + LIMIT_WAIT_MS + late]
  /\ UNCHANGED <<pc, fn, args, ret, aug, col, prev, page, calls, computing>>

\* lines 66-67 and 82: await delay(DELAY_MS), then the next symbol
IngestDelay ==
  /\ ingest.at = "delay"
  /\ \E late \in TimerLateness :
       ingest' = [ingest EXCEPT !.at = "loop", !.i = @ + 1,
                                !.now = @ + ingest.delayMs + late]
  /\ UNCHANGED <<pc, fn, args, ret, aug, col, prev, page, calls, computing>>

\* line 84: the loop is over
IngestDone ==
  /\ ingest.at = "loop"
  /\ ingest.i > Len(ingest.symbols)
  /\ ingest' = [ingest EXCEPT !.at = "done"]
  /\ UNCHANGED <<pc, fn, args, ret, aug, col, prev, page, calls, computing>>

NextIngest ==
  \/ IngestMain
  \/ IngestFetch
  \/ IngestAttemptEnds
  \/ IngestLimitWait
  \/ IngestDelay
  \/ IngestDone

SpecIngest == Init /\ [][NextIngest]_vars

\* a timer set fires and a request made is answered or fails
FairSpecIngest == SpecIngest /\ WF_vars(NextIngest)

\* loadAssets at the mount of the page, then the effect
AsyncLoadAssets ==
  /\ calls = <<>>
  /\ page.assets = <<>>
  /\ \E list \in AssetLists \ {<<>>} :
       LET p == [page EXCEPT !.assets = list]
       IN  /\ page' = EffectOn(p)
           /\ IF Len(list) < 2
                THEN UNCHANGED <<calls, computing>>
                ELSE /\ calls' = Append(calls, StartCall(p))
                     /\ computing' = TRUE
  /\ UNCHANGED <<pc, fn, args, ret, aug, col, prev, ingest>>

\* a strategy radio button, then the effect
AsyncSetStrategy ==
  /\ Len(calls) < MaxCalls
  /\ \E st \in {"maxSharpe", "minVariance"} :
       /\ st # page.strategy
       /\ LET p == [page EXCEPT !.strategy = st]
          IN  /\ page' = EffectOn(p)
              /\ IF Len(p.assets) < 2
                   THEN UNCHANGED <<calls, computing>>
                   ELSE /\ calls' = Append(calls, StartCall(p))
                        /\ computing' = TRUE
  /\ UNCHANGED <<pc, fn, args, ret, aug, col, prev, ingest>>

\* a period radio button, then the effect
AsyncSetHistoryPeriod ==
  /\ Len(calls) < MaxCalls
  /\ \E hp \in {"1y", "3y"} :
       /\ hp # page.historyPeriod
       /\ LET p == [page EXCEPT !.historyPeriod = hp]
          IN  /\ page' = EffectOn(p)
              /\ IF Len(p.assets) < 2
                   THEN UNCHANGED <<calls, computing>>
                   ELSE /\ calls' = Append(calls, StartCall(p))
                        /\ computing' = TRUE
  /\ UNCHANGED <<pc, fn, args, ret, aug, col, prev, ingest>>

\* a call gets its series (lines 80-93) and runs to line 160, or returns
SeriesFetched ==
  /\ \E k \in 1..Len(calls) :
       /\ calls[k].at = "fetching"
       /\ \E fetched \in Tuples(PriceSeries, Len(calls[k].assets)) :
            \E optW \in OptimizerOutcomes(Cardinality({i \in 1..Len(fetched) : Len(fetched[i]) > 0})) :
              LET a == AfterFetches(page, calls[k], fetched, optW)
                  result == [allocation |-> a.page.allocation, metrics |-> a.page.metrics]
              IN  /\ page' = a.page
                  /\ IF a.returned
                       THEN /\ calls' = [calls EXCEPT ![k] = [at |-> "finished", result |-> result,
                                                               strategy |-> calls[k].strategy]]
                            /\ computing' = FALSE
                       ELSE /\ calls' = [calls EXCEPT ![k] = [at |-> "evolving", result |-> result,
                                                               strategy |-> calls[k].strategy]]
                            /\ UNCHANGED computing
  /\ UNCHANGED <<pc, fn, args, ret, aug, col, prev, ingest>>

\* computeEvolution returned to a call: lines 166-167
EvolutionComputed ==
  /\ \E k \in 1..Len(calls) :
       /\ calls[k].at = "evolving"
       /\ \E evo \in EvolutionOutcomes :
            page' = [page EXCEPT !.evolutionData = evo]
       /\ calls' = [calls EXCEPT ![k].at = "finished"]
       /\ computing' = FALSE
  /\ UNCHANGED <<pc, fn, args, ret, aug, col, prev, ingest>>

NextOptimizationAsync ==
  \/ AsyncLoadAssets
  \/ AsyncSetStrategy
  \/ AsyncSetHistoryPeriod
  \/ SeriesFetched
  \/ EvolutionComputed

SpecOptimizationAsync == Init /\ [][NextOptimizationAsync]_vars

CallComputeMetrics ==
  /\ pc = "idle"
  /\ \E series \in MetricsSeries :
       /\ args' = [series |-> series]
       /\ ret' = computeMetrics(series)
  /\ fn' = "computeMetrics"
  /\ pc' = "done"
  /\ UNCHANGED <<aug, col, prev, page, calls, computing, ingest>>

NextMetrics == CallComputeMetrics

SpecMetrics == Init /\ [][NextMetrics]_vars

CallUserWeights ==
  /\ pc = "idle"
  /\ \E assets \in UserPortfolios :
       /\ args' = [assets |-> assets]
       /\ ret' = UserWeights(assets)
  /\ fn' = "loadFrontierAndPortfolio.weights"
  /\ pc' = "done"
  /\ UNCHANGED <<aug, col, prev, page, calls, computing, ingest>>

NextUserWeights == CallUserWeights

SpecUserWeights == Init /\ [][NextUserWeights]_vars

NextFrontier == CallComputeEfficientFrontier

SpecFrontier == Init /\ [][NextFrontier]_vars

NextChart == CallPriceChartComputeEfficientFrontier

SpecChart == Init /\ [][NextChart]_vars

NextOptimizationPage == LoadAssets \/ SetStrategy \/ SetHistoryPeriod \/ OptimizationEffect

SpecOptimizationPage == Init /\ [][NextOptimizationPage]_vars

NextPortfolioPage == CallLoadFrontierAndPortfolio

SpecPortfolioPage == Init /\ [][NextPortfolioPage]_vars

NextOptimize == CallOptimizeWeights

SpecOptimize == Init /\ [][NextOptimize]_vars

NextSharpe == CallMaxSharpeWeights \/ CallPortfolioSharpe

SpecSharpe == Init /\ [][NextSharpe]_vars

NextLinear == BeginSolve \/ BeginInvert \/ ElimColumn \/ ReturnResult \/ InvertAgain

SpecLinear == Init /\ [][NextLinear]_vars

----------------------------------------------------------------------------
(* Properties of computeEfficientFrontier.                                 *)

SampleVariance(r) ==
  Div(SumSeq([t \in 1..Len(r) |-> Mul(Sub(r[t], Mean(r)), Sub(r[t], Mean(r)))]),
      Num(Len(r) - 1))

\* C1: the sequence returned by computeEfficientFrontier is in ascending
\* order of risk (each risk <= the next one) and every risk is >= 0.
C1_FrontierSortedByRisk ==
  fn = "computeEfficientFrontier" =>
    /\ \A k \in 1..(Len(ret) - 1) : SurdLeq(ret[k].risk, ret[k + 1].risk)
    /\ \A k \in 1..Len(ret) : SurdSign(ret[k].risk) >= 0

\* a frontier of three points of which the least risky is not the one of
\* least return: the sweep order was changed by the sort
C1_Witness ==
  /\ fn = "computeEfficientFrontier"
  /\ Len(ret) >= 3
  /\ SurdLess(ret[1].risk, ret[2].risk)
  /\ Less(ret[2].return, ret[1].return)

\* C2: for one asset of at least 2 observations computeEfficientFrontier
\* returns exactly one point: the asset's mean return, its sample standard
\* deviation, weight 1.
C2_SingleAssetOnePoint ==
  (/\ fn = "computeEfficientFrontier"
   /\ Len(args.assetReturns) = 1
   /\ Len(args.assetReturns[1]) >= 2) =>
    /\ Len(ret) = 1
    /\ ret[1].return = Mean(args.assetReturns[1])
    /\ SurdEq(ret[1].risk, Sqrt(SampleVariance(args.assetReturns[1])))
    /\ ret[1].weights = <<One>>

\* the aligned series, their means and their covariance, as
\* computeEfficientFrontier derives them from its argument
FrontierReturns ==
  Eager([i \in 1..Len(args.assetReturns) |->
     LastK(args.assetReturns[i], MinLen(args.assetReturns))])

FrontierMeans == Eager([i \in 1..Len(FrontierReturns) |-> Mean(FrontierReturns[i])])

FrontierCov == covMatrix(FrontierReturns)

FrontierTargets ==
  {TargetRet(FrontierMeans, i, args.nPoints) : i \in 0..args.nPoints}

\* C12: every point returned by computeEfficientFrontier carries a weight
\* vector of the length of the input, whose entries sum to 1 and whose
\* expected return, the point's return, is one of the sweep's targets.
C12_PointWeights ==
  (fn = "computeEfficientFrontier" /\ Len(ret) > 0) =>
    \A k \in 1..Len(ret) :
      /\ Len(ret[k].weights) = Len(args.assetReturns)
      /\ SumSeq(ret[k].weights) = One
      /\ ret[k].return = Dot(FrontierMeans, ret[k].weights)
      /\ ret[k].return \in FrontierTargets

\* three assets, a frontier of three points of different returns
C12_Witness ==
  /\ fn = "computeEfficientFrontier"
  /\ Len(args.assetReturns) = 3
  /\ Len(ret) = 3
  /\ {ret[k].return : k \in 1..3} = FrontierTargets
  /\ \A k \in 1..3 : SumSeq(ret[k].weights) = One

\* what optimizeWeights gives for each target of the call, the i-th target
\* at index i + 1
FrontierSolves ==
  LET mu == FrontierMeans
      cov == FrontierCov
  IN  Eager([i \in 1..(args.nPoints + 1) |->
         optimizeWeights(mu, cov, TargetRet(mu, i - 1, args.nPoints))])

\* the points of the targets whose solve succeeds
SolvedPoints(sols) ==
  LET mu == FrontierMeans
      cov == FrontierCov
  IN  {FrontierPoint(mu, cov, sols[i].val) : i \in {j \in 1..Len(sols) : ~sols[j].null}}

\* C15: the returned frontier holds exactly one point for each target whose
\* solve succeeds and none for a target whose solve fails; its length is at
\* most nPoints + 1, and failing targets leave a (possibly empty) frontier.
C15_FailedTargetsSkipped ==
  (fn = "computeEfficientFrontier"
     /\ Len(args.assetReturns) > 0 /\ MinLen(args.assetReturns) >= 2) =>
    LET sols == FrontierSolves
    IN  /\ Len(ret) = Cardinality({j \in 1..Len(sols) : ~sols[j].null})
        /\ Len(ret) <= args.nPoints + 1
        /\ {ret[k] : k \in 1..Len(ret)} = SolvedPoints(sols)
        /\ Cardinality(SolvedPoints(sols)) = Len(ret)

\* two or more series of 2 or more observations, every target's solve
\* singular: the call returns the empty frontier
C15_Witness ==
  /\ fn = "computeEfficientFrontier"
  /\ Len(args.assetReturns) >= 2
  /\ MinLen(args.assetReturns) >= 2
  /\ \A i \in 1..(args.nPoints + 1) : FrontierSolves[i].null
  /\ ret = <<>>

\* C16: computeEfficientFrontier returns the empty sequence when given no
\* asset, or when the shortest series has fewer than 2 observations.
C16_EmptyOnNoData ==
  (/\ fn = "computeEfficientFrontier"
   /\ \/ Len(args.assetReturns) = 0
      \/ \E i \in 1..Len(args.assetReturns) : Len(args.assetReturns[i]) < 2) =>
    ret = <<>>

\* a call with a series of 4 observations and an empty one returned empty
C16_Witness ==
  /\ fn = "computeEfficientFrontier"
  /\ \E i \in 1..Len(args.assetReturns) : Len(args.assetReturns[i]) = 4
  /\ \E i \in 1..Len(args.assetReturns) : Len(args.assetReturns[i]) = 0
  /\ ret = <<>>

\* the call without assets returned empty
C16_NoAssetsReached ==
  /\ fn = "computeEfficientFrontier"
  /\ args.assetReturns = <<>>
  /\ ret = <<>>

FrontierCalls == {"computeEfficientFrontier", "PriceChart.computeEfficientFrontier"}

\* C14: computeEfficientFrontier sweeps the nPoints + 1 targets
\* min + (max - min) * i / nPoints over the single-asset mean returns, so
\* every returned point's return is one of these targets and lies between
\* the minimum and the maximum mean.
C14_SweepTargets ==
  (fn \in FrontierCalls /\ Len(ret) > 0) =>
    \A k \in 1..Len(ret) :
      /\ ret[k].return \in FrontierTargets
      /\ Leq(MinOver(FrontierMeans), ret[k].return)
      /\ Leq(ret[k].return, MaxOver(FrontierMeans))

\* C14 for the computeEfficientFrontier of markowitz.ts alone: the first
\* target is the minimum mean, the last the maximum mean, the returns of
\* the points are targets within that range
C14_LibSweepTargets ==
  (fn = "computeEfficientFrontier" /\ Len(ret) > 0) =>
    /\ TargetRet(FrontierMeans, 0, args.nPoints) = MinOver(FrontierMeans)
    /\ TargetRet(FrontierMeans, args.nPoints, args.nPoints) = MaxOver(FrontierMeans)
    /\ \A k \in 1..Len(ret) :
         /\ ret[k].return \in FrontierTargets
         /\ Leq(MinOver(FrontierMeans), ret[k].return)
         /\ Leq(ret[k].return, MaxOver(FrontierMeans))

----------------------------------------------------------------------------
(* Properties of maxSharpeWeights and portfolioSharpe.                     *)

WeightSteps == {Rat(-1, 2), Zero, Rat(1, 2), One, Rat(3, 2)}

\* weight vectors of n assets summing to 1, on a grid of halves
SumOneGrid(n) == {w \in Tuples(WeightSteps, n) : SumSeq(w) = One}

SharpeOf(w) == portfolioSharpe(w, args.meanRets, args.cov, args.riskFree)

\* C3: in the two-asset scenario (means 8% and 12%, covariance
\* [[0.04, 0.01], [0.01, 0.09]], risk-free 4%) maxSharpeWeights returns
\* weights whose Sharpe ratio is at least that of each single asset.
C3_TwoAssetScenarioDominates ==
  (/\ fn = "maxSharpeWeights"
   /\ args.meanRets = <<Pct(8), Pct(12)>>
   /\ args.cov = TwoAssetCov
   /\ args.riskFree = RISK_FREE) =>
    /\ ~ret.null
    /\ SurdLeq(SharpeOf(<<One, Zero>>), SharpeOf(ret.val))
    /\ SurdLeq(SharpeOf(<<Zero, One>>), SharpeOf(ret.val))

C3_Witness ==
  /\ fn = "maxSharpeWeights"
  /\ args.meanRets = <<Pct(8), Pct(12)>>
  /\ args.cov = TwoAssetCov
  /\ args.riskFree = RISK_FREE
  /\ ret = Some(<<Rat(1, 2), Rat(1, 2)>>)

\* C4: whenever maxSharpeWeights returns weights, no weight vector summing
\* to 1 (in particular no single asset) has a higher Sharpe ratio.
C4_MaxSharpeIsMaximal ==
  (fn = "maxSharpeWeights" /\ ~ret.null) =>
    \A v \in SumOneGrid(Len(args.meanRets)) : SurdLeq(SharpeOf(v), SharpeOf(ret.val))

\* the unnormalised weights, recomputed from the inverse covariance
RawWeights ==
  matVec(invertMatrix(args.cov).val,
         [i \in 1..Len(args.meanRets) |-> Sub(args.meanRets[i], args.riskFree)])

\* C5: maxSharpeWeights returns null exactly when there is no asset, the
\* inversion of the covariance fails, or the unnormalised weights sum to
\* less than 1e-12 in absolute value; otherwise n weights, the unnormalised
\* ones over their sum, which sum to 1 and satisfy cov . w = excess / sum.
C5_MaxSharpeNullExactly ==
  fn = "maxSharpeWeights" =>
    LET n == Len(args.meanRets)
        noWeights == \/ n = 0
                     \/ invertMatrix(args.cov).null
                     \/ BelowTol(SumSeq(RawWeights), SUM_TOL_EXP)
    IN  /\ ret.null <=> noWeights
        /\ ~ret.null =>
             /\ Len(ret.val) = n
             /\ \A i \in 1..n : ret.val[i] = Div(RawWeights[i], SumSeq(RawWeights))
             /\ SumSeq(ret.val) = One
             /\ \A i \in 1..n :
                  Mul(Dot(args.cov[i], ret.val), SumSeq(RawWeights))
                    = Sub(args.meanRets[i], args.riskFree)

\* weights returned although the unnormalised ones sum to less than zero
C5_Witness ==
  /\ fn = "maxSharpeWeights"
  /\ ~ret.null
  /\ Len(ret.val) >= 2
  /\ Sign(SumSeq(RawWeights)) < 0

\* null for a non-zero sum below 1e-12 (1 x 1 covariance 1e12)
C5_TinySumReached ==
  /\ fn = "maxSharpeWeights"
  /\ ret.null
  /\ Len(args.meanRets) > 0
  /\ ~invertMatrix(args.cov).null
  /\ SumSeq(RawWeights) # Zero

AllEntriesEqual(M) == \A i, j \in 1..Len(M) : M[i][j] = M[1][1]

\* C6: for the covariance matrix of 3 identical return series (all entries
\* equal) maxSharpeWeights returns null.
C6_IdenticalSeriesSingular ==
  (fn = "maxSharpeWeights" /\ Len(args.cov) = 3 /\ AllEntriesEqual(args.cov)) => ret.null

C6_Witness ==
  /\ fn = "maxSharpeWeights"
  /\ Len(args.cov) = 3
  /\ AllEntriesEqual(args.cov)
  /\ args.cov[1][1] # Zero
  /\ ret.null

\* expected excess return and variance, recomputed as w . mu - rf and
\* w . (cov w)
ExcessOf(w) == Sub(Dot(w, args.meanRets), args.riskFree)
VarianceOf(w) == Dot(w, matVec(args.cov, w))

\* C7: portfolioSharpe returns 0 when the variance of the weights is <= 0,
\* and otherwise a value s with the sign of the excess return and
\* s^2 * variance = (excess return)^2.
C7_SharpeFormula ==
  fn = "portfolioSharpe" =>
    IF Leq(VarianceOf(args.weights), Zero)
      THEN SurdSign(ret) = 0
      ELSE /\ SurdSign(ret) = Sign(ExcessOf(args.weights))
           /\ Mul(SurdSq(ret), VarianceOf(args.weights))
                = Mul(ExcessOf(args.weights), ExcessOf(args.weights))

C7_Witness ==
  /\ fn = "portfolioSharpe"
  /\ Sign(VarianceOf(args.weights)) > 0
  /\ Sign(ExcessOf(args.weights)) > 0
  /\ args.riskFree = RISK_FREE
  /\ SurdSign(ret) > 0

\* a portfolio of zero variance and non-zero excess return, reported as 0
C7_ZeroVarianceReached ==
  /\ fn = "portfolioSharpe"
  /\ VarianceOf(args.weights) = Zero
  /\ ExcessOf(args.weights) # Zero
  /\ ret = SurdZero

(* Properties of solve and invertMatrix.                                   *)

\* C8 as stated: inverting the inverse of a covariance matrix succeeds and
\* gives the matrix back.
C8_InverseOfInverse ==
  (pc = "done" /\ prev.fn = "invertMatrix" /\ prev.M \in CovMatrices) =>
    (~ret.null /\ ret.val = prev.M)

\* C8, amended: when inverting the inverse of a covariance matrix succeeds,
\* it gives the matrix back.
C8_InverseOfInverseIfInvertible ==
  (pc = "done" /\ prev.fn = "invertMatrix" /\ prev.M \in CovMatrices /\ ~ret.null) =>
    ret.val = prev.M

\* a covariance matrix of 2 or more assets, not diagonal, recovered
C8_Witness ==
  /\ pc = "done"
  /\ prev.fn = "invertMatrix"
  /\ prev.M \in CovMatrices
  /\ Len(prev.M) >= 2
  /\ prev.M[1][2] # Zero
  /\ ~ret.null
  /\ ret.val = prev.M

\* C9: a vector x returned by solve(A, b) has the length of A and
\* satisfies A . x = b.
C9_SolveSolves ==
  (pc = "done" /\ fn = "solve" /\ ~ret.null) =>
    /\ Len(ret.val) = Len(args.A)
    /\ matVec(args.A, ret.val) = args.b

\* a KKT system of two assets solved
C9_Witness ==
  /\ pc = "done"
  /\ fn = "solve"
  /\ ~ret.null
  /\ Len(args.A) = 4
  /\ matVec(args.A, ret.val) = args.b

\* every candidate pivot of column c, the rows from c on, is below 10^(-k)
ColumnBelowTol(a, c, k) == \A r \in c..Len(a) : BelowTol(a[r][c], k)

\* C10, at each column: the call ends with null if and only if every entry
\* of the column in the rows not yet used is strictly below the tolerance
\* (1e-10 in solve, 1e-12 in invertMatrix); otherwise the loop goes on.
ElimColumnOutcome ==
  (pc = "elim" /\ col <= Len(aug)) =>
    IF ColumnBelowTol(aug, col, TolExp(fn))
      THEN pc' = "done" /\ ret'.null
      ELSE pc' = "elim" /\ col' = col + 1

\* C10, at the end: null is returned only from inside the column loop, at a
\* column below the tolerance; a call that leaves the loop returns a value.
ElimNullOnlyBelowTol ==
  (pc = "done" /\ fn \in {"solve", "invertMatrix"}) =>
    (ret.null <=> (col <= Len(aug) /\ ColumnBelowTol(aug, col, TolExp(fn))))

\* C10: solve and invertMatrix return null if and only if, at some column,
\* the largest absolute value among the rows not yet used as pivot is
\* strictly below the tolerance; a pivot equal to the tolerance is accepted.
C10_NullIffPivotBelowTol == [][ElimColumnOutcome]_vars /\ []ElimNullOnlyBelowTol

\* a 1 x 1 system whose only entry has exactly the magnitude of the
\* tolerance, solved or inverted
C10_Witness ==
  /\ pc = "done"
  /\ fn \in {"solve", "invertMatrix"}
  /\ prev = NoCall
  /\ Len(aug) = 1
  /\ AbsN(IF fn = "solve" THEN args.A[1][1] ELSE args.M[1][1]) = Dec(1, -TolExp(fn))
  /\ ~ret.null

\* null returned at the second column of a 2 x 2 system
C10_NullAtLaterColumn ==
  /\ pc = "done"
  /\ fn = "solve"
  /\ ret.null
  /\ col = 2

MatMul(A, B) ==
  [i \in 1..Len(A) |-> [j \in 1..Len(B[1]) |->
     SumSeq([k \in 1..Len(B) |-> Mul(A[i][k], B[k][j])])]]

Identity(n) == [i \in 1..n |-> [j \in 1..n |-> IF i = j THEN One ELSE Zero]]

\* C11: a matrix R returned by invertMatrix(M) is the inverse of M:
\* R has the shape of M and M . R is the identity matrix.
C11_InverseIsInverse ==
  (pc = "done" /\ fn = "invertMatrix" /\ ~ret.null) =>
    /\ Len(ret.val) = Len(args.M)
    /\ MatMul(args.M, ret.val) = Identity(Len(args.M))

\* a matrix of 2 or more rows with a non-zero off-diagonal entry, inverted
C11_Witness ==
  /\ pc = "done"
  /\ fn = "invertMatrix"
  /\ ~ret.null
  /\ Len(args.M) >= 2
  /\ args.M[1][2] # Zero
  /\ MatMul(args.M, ret.val) = Identity(Len(args.M))

----------------------------------------------------------------------------
(* Properties of optimizeWeights.                                          *)

\* directions that change neither the sum of the weights nor their expected
\* return: for assets i < j < k, (mu_j - mu_k, mu_k - mu_i, mu_i - mu_j)
FeasibleDirs(mu) ==
  {[x \in 1..Len(mu) |->
      IF x = t[1] THEN Sub(mu[t[2]], mu[t[3]])
      ELSE IF x = t[2] THEN Sub(mu[t[3]], mu[t[1]])
      ELSE IF x = t[3] THEN Sub(mu[t[1]], mu[t[2]])
      ELSE Zero]
   : t \in {q \in (1..Len(mu)) \X (1..Len(mu)) \X (1..Len(mu)) : q[1] < q[2] /\ q[2] < q[3]}}

RivalSteps == {Num(-100), Num(-1), Rat(-1, 100), Rat(1, 100), Num(1), Num(100)}

\* sum_i sum_j u_i * cov[i][j] * v_j
Bilinear(u, cov, v) ==
  SumSeq([i \in 1..Len(u) |-> SumSeq([j \in 1..Len(v) |-> Mul(Mul(u[i], cov[i][j]), v[j])])])

\* the variance of w + t * d less the variance of w, expanded:
\* t * (d' cov w + w' cov d) + t^2 * d' cov d
VarianceChange(w, t, d, cov) ==
  Add(Mul(t, Add(Bilinear(d, cov, w), Bilinear(w, cov, d))),
      Mul(Mul(t, t), QuadForm(d, cov)))

\* grid vectors with the sum and the expected return of the target
GridRivals(mu, target) == {v \in SumOneGrid(Len(mu)) : Dot(mu, v) = target}

\* C13: weights w returned by optimizeWeights for a target have the least
\* variance among the weight vectors that sum to 1 and have the target as
\* expected return: the rivals w + t * d along every feasible direction d,
\* and the grid vectors that meet both constraints.
C13_MinimumVariance ==
  (fn = "optimizeWeights" /\ ~ret.null) =>
    /\ SumSeq(ret.val) = One
    /\ Dot(args.meanRets, ret.val) = args.targetRet
    /\ \A d \in FeasibleDirs(args.meanRets) :
         /\ SumSeq(d) = Zero
         /\ Dot(args.meanRets, d) = Zero
         /\ \A t \in RivalSteps : Leq(Zero, VarianceChange(ret.val, t, d, args.cov))
    /\ \A v \in GridRivals(args.meanRets, args.targetRet) :
         Leq(QuadForm(ret.val, args.cov), QuadForm(v, args.cov))

\* three assets: a rival of strictly larger variance exists
C13_Witness ==
  /\ fn = "optimizeWeights"
  /\ ~ret.null
  /\ Len(args.meanRets) = 3
  /\ \E d \in FeasibleDirs(args.meanRets) :
       Less(Zero, VarianceChange(ret.val, Num(1), d, args.cov))

\* a grid vector other than the returned weights meets both constraints
C13_GridRivalReached ==
  /\ fn = "optimizeWeights"
  /\ ~ret.null
  /\ \E v \in GridRivals(args.meanRets, args.targetRet) :
       v # ret.val /\ Less(QuadForm(ret.val, args.cov), QuadForm(v, args.cov))

----------------------------------------------------------------------------
(* Properties of OptimizationPage.computeOptimal.                          *)

\* C17: a run of computeOptimal in which fewer than 2 assets have a
\* non-empty price series, or the common length of the series is below 2,
\* reports insufficient data: the error message of line 95 is set, the
\* allocation is empty and no optimizer is called.
C17_InsufficientData ==
  (page.last.ran /\ (page.last.usable < 2 \/ page.last.minLen < 2)) =>
    /\ page.error = "insufficient"
    /\ page.allocation = <<>>
    /\ ~page.last.optimizerCalled

\* C17, the first case alone: fewer than 2 assets with a non-empty series
C17_FewerThanTwoSeries ==
  (page.last.ran /\ page.last.usable < 2) =>
    /\ page.error = "insufficient"
    /\ page.allocation = <<>>
    /\ ~page.last.optimizerCalled

\* the step ran computeOptimal and the optimizer it called returned null
OptimizerReturnedNull(p) ==
  p.last.ran /\ p.last.optimizerCalled /\ p.last.weights.null

\* C18: when the optimizer returns null, computeOptimal shows an error
\* message and leaves the allocation, the metrics and the evolution data as
\* they were displayed before.
C18_NullKeepsPriorState ==
  [][OptimizerReturnedNull(page') =>
       /\ page'.error # "null"
       /\ page'.allocation = page.allocation
       /\ page'.metrics = page.metrics
       /\ page'.evolutionData = page.evolutionData]_vars

\* C18, amended: when the optimizer returns null, computeOptimal shows the
\* error message of line 132 and clears the allocation, the metrics and the
\* evolution data.
C18_NullClearsDisplay ==
  OptimizerReturnedNull(page) =>
    /\ page.error = "impossible"
    /\ page.allocation = <<>>
    /\ page.metrics = NoMetrics
    /\ page.evolutionData = <<>>

\* the optimizer returned null for two series of 3 closes each
C18_Witness ==
  /\ OptimizerReturnedNull(page)
  /\ page.last.usable = 2
  /\ page.last.minLen = 3
  /\ page.error = "impossible"
  /\ page.allocation = <<>>

----------------------------------------------------------------------------
(* Properties of PortfolioPage.loadFrontierAndPortfolio.                   *)

AvailableCloses(sym) ==
  LET i == CHOOSE j \in 1..Len(args.sp500Map) : args.sp500Map[j].sym = sym
  IN  args.sp500Map[i].closes

Retained == {ret.selectedSymbols[k] : k \in 1..Len(ret.selectedSymbols)}

Dropped == {args.sp500Map[i].sym : i \in 1..Len(args.sp500Map)} \ Retained

\* C20: when more than 120 symbols are available, the symbols retained are
\* the top 120 by available history length: no dropped symbol has a
\* strictly longer available price history than a retained symbol.
C20_TopByHistoryLength ==
  (fn = "loadFrontierAndPortfolio" /\ Len(args.sp500Map) > 120) =>
    /\ Cardinality(Retained) = 120
    /\ \A d \in Dropped : \A r \in Retained : AvailableCloses(d) <= AvailableCloses(r)

----------------------------------------------------------------------------
(* Properties of the covariance computations.                              *)

CovT == IF Len(args.returns) = 0 THEN 0 ELSE Len(args.returns[1])

\* the deviations of the series from their means
Deviations(returns) ==
  Eager([i \in 1..Len(returns) |->
     LET m == Mean(returns[i])
     IN  Eager([t \in 1..Len(returns[i]) |-> Sub(returns[i][t], m)])])

\* C21: a covariance matrix built by covMatrix or buildCovMatrix from n
\* series of equal length T >= 2 is n x n and symmetric, its diagonal is
\* non-negative and entry (i, j) times T - 1 is the sum of the products of
\* the deviations of series i and j from their means.
C21_SampleCovariance ==
  (fn \in {"covMatrix", "buildCovMatrix"} /\ CovT >= 2) =>
    LET n == Len(args.returns)
        dev == Deviations(args.returns)
    IN  /\ Len(ret) = n
        /\ \A i \in 1..n : Len(ret[i]) = n
        /\ \A i, j \in 1..n : ret[i][j] = ret[j][i]
        /\ \A i \in 1..n : Sign(ret[i][i]) >= 0
        /\ \A i, j \in 1..n :
             Mul(ret[i][j], Num(CovT - 1))
               = SumSeq([t \in 1..CovT |-> Mul(dev[i][t], dev[j][t])])

\* two series that move against each other: a negative covariance
C21_Witness ==
  /\ fn = "covMatrix"
  /\ Len(args.returns) = 2
  /\ CovT = 3
  /\ Sign(ret[1][2]) < 0
  /\ Sign(ret[1][1]) > 0

C21_BuildWitness ==
  /\ fn = "buildCovMatrix"
  /\ Len(args.returns) = 2
  /\ CovT = 3
  /\ Sign(ret[2][1]) < 0

\* C22: in every covariance computation, when the number of observations
\* T is <= 1 every covariance entry is 0 (no division by T - 1 = 0 or by
\* T = 0 decides an entry).
C22_ZeroWhenFewObservations ==
  (fn \in {"covMatrix", "buildCovMatrix", "PortfolioPage.cov"} /\ CovT <= 1) =>
    \A i \in 1..Len(ret) : \A j \in 1..Len(ret[i]) : ret[i][j] = Zero

\* C22 for buildCovMatrix alone, which tests T > 1
C22_BuildCovZero ==
  (fn = "buildCovMatrix" /\ CovT <= 1) =>
    \A i \in 1..Len(ret) : \A j \in 1..Len(ret[i]) : ret[i][j] = Zero

C22_BuildCovReached ==
  /\ fn = "buildCovMatrix"
  /\ CovT = 1
  /\ Len(ret) = 2

----------------------------------------------------------------------------
(* Properties of the preparation of the returns.                           *)

ReturnsCall == fn \in {"computeOptimal.returns", "loadFrontierAndPortfolio.userReturns"}

\* the length of the shortest price series of the call
ShortestLen ==
  CHOOSE l \in {Len(args.closesList[k]) : k \in 1..Len(args.closesList)} :
    \A k \in 1..Len(args.closesList) : l <= Len(args.closesList[k])

\* C23: the return series all have minLen - 1 entries, minLen being the
\* length of the shortest price series, and entry t of series k is the
\* simple return between the prices t and t + 1 of the last minLen prices of
\* asset k: r * p[t-1] = p[t] - p[t-1].
C23_SimpleReturnsOfLastMinLen ==
  ReturnsCall =>
    /\ Len(ret) = Len(args.closesList)
    /\ \A k \in 1..Len(ret) :
         LET p == args.closesList[k]
             off == Len(p) - ShortestLen
         IN  /\ Len(ret[k]) = ShortestLen - 1
             /\ \A t \in 1..(ShortestLen - 1) :
                  Mul(ret[k][t], p[off + t]) = Sub(p[off + t + 1], p[off + t])

\* a series longer than the shortest one, whose first prices differ from
\* its last ones, in both preparations
C23_Witness ==
  /\ fn = "computeOptimal.returns"
  /\ Len(args.closesList) = 2
  /\ args.closesList[1] = <<Num(110), Num(100), Num(110)>>
  /\ Len(args.closesList[2]) = 2
  /\ ret[1] = <<Rat(1, 10)>>

C23_UserWitness ==
  /\ fn = "loadFrontierAndPortfolio.userReturns"
  /\ Len(args.closesList) = 2
  /\ args.closesList[1] = <<Num(110), Num(100), Num(110)>>
  /\ Len(args.closesList[2]) = 2
  /\ ret[1] = <<Rat(1, 10)>>

----------------------------------------------------------------------------
(* The arrays handed to solve and invertMatrix.                            *)

----------------------------------------------------------------------------
(* Properties of the loop of populate-sp500.mjs.                           *)

\* the attempts made so far are those of the first symbols of the list, in
\* order and one each; an attempt starts DELAY_MS at least after the end of
\* the one before; at the end every symbol was attempted
IngestSequential ==
  ingest.at # "idle" =>
    /\ Len(ingest.log) <= Len(ingest.symbols)
    /\ \A k \in 1..Len(ingest.log) : ingest.log[k].sym = ingest.symbols[k]
    /\ \A k \in 1..(Len(ingest.log) - 1) :
         /\ ingest.log[k].outcome # "pending"
         /\ ingest.log[k + 1].start >= ingest.log[k].end + ingest.delayMs
    /\ ingest.at = "done" =>
         /\ Len(ingest.log) = Len(ingest.symbols)
         /\ \A k \in 1..Len(ingest.log) : ingest.log[k].outcome # "pending"

\* C25: the loop of populate-sp500 fetches the symbols one at a time in
\* list order, waits DELAY_MS at least after the attempt of a symbol before
\* the next fetch, attempts every symbol exactly once, also after symbols
\* without data or in error, and then terminates.
C25_SequentialThenTerminates == []IngestSequential /\ <>(ingest.at = "done")

\* a run ended after a symbol without data and a symbol in error
C25_Witness ==
  /\ ingest.at = "done"
  /\ Len(ingest.log) = 2
  /\ ingest.log[1].outcome = "noData"
  /\ ingest.log[2].outcome = "limitError"
  /\ ingest.log[2].start = ingest.log[1].end + ingest.delayMs

----------------------------------------------------------------------------
(* Properties of the calls of computeOptimal that overlap.                  *)

AllCallsFinished == \A k \in 1..Len(calls) : calls[k].at = "finished"

\* C26: a call superseded by a change of strategy, assets or period has
\* its result discarded: once every call started has finished, the
\* allocation and the metrics displayed are those computed by the call
\* started last, for the strategy selected.
C26_LastStartedCallDisplayed ==
  (Len(calls) > 0 /\ AllCallsFinished) =>
    /\ calls[Len(calls)].strategy = page.strategy
    /\ page.allocation = calls[Len(calls)].result.allocation
    /\ page.metrics = calls[Len(calls)].result.metrics

\* two calls ended in the order they started
C26_InOrderReached ==
  /\ Len(calls) = 2
  /\ AllCallsFinished
  /\ page.allocation = calls[2].result.allocation
  /\ page.allocation # calls[1].result.allocation

\* C27: the computing flag is true in every state in which a call of
\* computeOptimal has started and not finished, and false once every call
\* started has finished.
C27_ComputingIffCallInFlight ==
  computing <=> (\E k \in 1..Len(calls) : calls[k].at # "finished")

\* C27, the second half alone: no call in flight, flag false
C27_IdleNotComputing == AllCallsFinished => ~computing

----------------------------------------------------------------------------
(* Assets of one and the same mean return.                                 *)

EqualMeans == \A i, j \in 1..Len(FrontierMeans) : FrontierMeans[i] = FrontierMeans[j]

\* C28: when all the assets have the same mean return (2 observations at
\* least each), the KKT system is singular for every target return, the
\* targets of the sweep and others, and computeEfficientFrontier returns
\* the empty frontier.
C28_EqualMeansEmptyFrontier ==
  (/\ fn = "computeEfficientFrontier"
   /\ Len(args.assetReturns) > 0
   /\ MinLen(args.assetReturns) >= 2
   /\ EqualMeans) =>
    /\ ret = <<>>
    /\ \A t \in FrontierTargets \cup {Zero, Pct(10)} :
         solve(KktA(FrontierMeans, FrontierCov), KktB(FrontierMeans, t)).null

\* two different series of the same mean once aligned, of positive variance
C28_Witness ==
  /\ fn = "computeEfficientFrontier"
  /\ Len(args.assetReturns) = 2
  /\ MinLen(args.assetReturns) >= 2
  /\ FrontierReturns[1] # FrontierReturns[2]
  /\ EqualMeans
  /\ Sign(FrontierCov[1][1]) > 0
  /\ ret = <<>>

----------------------------------------------------------------------------
(* Properties of computeMetrics.                                           *)

\* the fall from close i to close j, relative to close i
Fall(series, i, j) == Div(Sub(series[i].close, series[j].close), series[i].close)

\* C30: for a series of 2 points at least, of positive closes, maxDrawdown
\* is the largest (close[i] - close[j]) / close[i] over the pairs i <= j,
\* a value in [0, 1); for a series of fewer than 2 points the yearly
\* returns are empty and volatility, maxDrawdown and sharpeRatio are 0.
C30_MaxDrawdown ==
  fn = "computeMetrics" =>
    LET series == args.series
        n == Len(series)
    IN  IF n < 2
          THEN /\ DOMAIN ret.yearlyReturns = {}
               /\ ret.volatility = SurdZero
               /\ ret.maxDrawdown = Zero
               /\ ret.sharpeRatio = SurdZero
          ELSE /\ \E i \in 1..n : \E j \in i..n : ret.maxDrawdown = Fall(series, i, j)
               /\ \A i \in 1..n : \A j \in i..n : Leq(Fall(series, i, j), ret.maxDrawdown)
               /\ Leq(Zero, ret.maxDrawdown)
               /\ Less(ret.maxDrawdown, One)

\* the peak is not the first close: 100, 200, 100 falls by a half
C30_Witness ==
  /\ fn = "computeMetrics"
  /\ Len(args.series) = 3
  /\ args.series[1].close = Num(100)
  /\ args.series[2].close = Num(200)
  /\ args.series[3].close = Num(100)
  /\ ret.maxDrawdown = Rat(1, 2)

C30_ShortSeriesReached ==
  /\ fn = "computeMetrics"
  /\ Len(args.series) = 1
  /\ ret.maxDrawdown = Zero

----------------------------------------------------------------------------
(* Properties of the weights of the portfolio of the user.                 *)

\* the stored weight (1 for null) of the asset of the k-th user series
StoredWeightOfSeries(k) ==
  WeightOrOne(args.assets[CHOOSE i \in 1..Len(args.assets) :
                            args.assets[i].symbol = ret.symbols[k]])

\* C29: the weight applied to each return series of the user is the stored
\* weight of the asset of the same symbol, normalised over the series, also
\* when some assets have no price series; the normalised weights sum to 1
\* whenever the raw weights sum to a positive number.
C29_WeightsFollowSymbols ==
  fn = "loadFrontierAndPortfolio.weights" =>
    LET len == Len(ret.symbols)
        total == SumSeq([k \in 1..len |-> StoredWeightOfSeries(k)])
    IN  /\ Sign(total) > 0 =>
             \A k \in 1..len : Mul(ret.normWeights[k], total) = StoredWeightOfSeries(k)
        /\ Sign(SumSeq(ret.weights)) > 0 => SumSeq(ret.normWeights) = One

\* C29 when every asset has a series, and its second half in all cases
C29_AlignedWhenNoSeriesMissing ==
  fn = "loadFrontierAndPortfolio.weights" =>
    LET len == Len(ret.symbols)
        total == SumSeq([k \in 1..len |-> StoredWeightOfSeries(k)])
    IN  /\ (len = Len(args.assets) /\ Sign(total) > 0) =>
             \A k \in 1..len : Mul(ret.normWeights[k], total) = StoredWeightOfSeries(k)
        /\ Sign(SumSeq(ret.weights)) > 0 => SumSeq(ret.normWeights) = One

C29_MissingSeriesReached ==
  /\ fn = "loadFrontierAndPortfolio.weights"
  /\ Len(args.assets) = 3
  /\ Len(ret.symbols) = 2
  /\ ~args.assets[1].hasSeries

----------------------------------------------------------------------------
Next == NextFrontier \/ NextChart \/ NextOptimize \/ NextSharpe \/ NextLinear
          \/ NextOptimizationPage \/ NextPortfolioPage \/ NextCov
          \/ NextReturns \/ NextIngest \/ NextOptimizationAsync
          \/ NextMetrics \/ NextUserWeights

Spec == Init /\ [][Next]_vars
====
